---- MODULE Spec2Model ----
(***************************************************************************)
(* A model of three operations of the NetX TCP/IP stack that share one IP  *)
(* instance and its protection mutex:                                      *)
(*   _nx_igmp_interface_report_send  (nx_igmp_interface_report_send.c)     *)
(*   _nx_udp_socket_bind             (nx_udp_socket_bind.c)                *)
(*   _nx_tcp_client_socket_connect   (nx_tcp_client_socket_connect.c)      *)
(* Threads call the operations; every call is a sequence of steps, one per *)
(* region of the function between two scheduling points (taking the mutex, *)
(* the body up to the release of the mutex, the code after a suspension).  *)
(* The collaborators whose code is elsewhere (unbind, the suspension       *)
(* cleanups, the route lookup, the SYN transmitter, the packet pool) are   *)
(* modelled from their description in the specification.                   *)
(***************************************************************************)
EXTENDS Integers, Sequences, FiniteSets, TLC

(***************************************************************************)
(* Bounds of the model.                                                    *)
(***************************************************************************)
\* Calls started over a whole run, and those of them that are connect calls
\* and report_send calls.
MaxCalls == 3
MaxConnectCalls == 2
MaxReportCalls == 2
\* log2 of the number of buckets of the UDP port table (a power of two).
PortTableBits == 1
\* Packets of the default packet pool.
PoolSize == 1
\* Ports of the range searched for NX_ANY_PORT, the top ports below
\* NX_MAX_PORT, few enough for the range to be exhausted.
SearchPorts == 2

(***************************************************************************)
(* Program constants.                                                      *)
(***************************************************************************)
NX_NULL == 0
NX_ANY_PORT == 0
NX_MAX_PORT == 65535
\* First port of the range searched for NX_ANY_PORT.
NX_SEARCH_PORT_START == NX_MAX_PORT + 1 - SearchPorts
NX_UDP_PORT_TABLE_SIZE == 2 ^ PortTableBits

Threads == {1, 2, 3}
\* &(ip_ptr -> nx_ip_thread), the IP instance's internal thread.
IpThread == 3
UdpSockets == {1, 2, 3}
\* The ports the callers of bind ask for.
BindPorts == {NX_ANY_PORT, 1}
\* The wait options the callers pass (ticks); 0 is TX_NO_WAIT.
WaitOptions == {0, 10}

(***************************************************************************)
(* 32-bit ULONG arithmetic.  A ULONG is the pair <<high, low>> of its      *)
(* 16-bit halves.                                                          *)
(***************************************************************************)
\* a | b and a & b on halves
RECURSIVE BitOr(_, _)
BitOr(a, b) ==
    IF a = 0 THEN b
    ELSE IF b = 0 THEN a
    ELSE (IF a % 2 = 1 \/ b % 2 = 1 THEN 1 ELSE 0) + 2 * BitOr(a \div 2, b \div 2)

RECURSIVE BitAnd(_, _)
BitAnd(a, b) ==
    IF a = 0 \/ b = 0 THEN 0
    ELSE (IF a % 2 = 1 /\ b % 2 = 1 THEN 1 ELSE 0) + 2 * BitAnd(a \div 2, b \div 2)

Ulong(x) == <<0, x>>
Zero32 == Ulong(0)
Or32(x, y) == <<BitOr(x[1], y[1]), BitOr(x[2], y[2])>>
And32(x, y) == <<BitAnd(x[1], y[1]), BitAnd(x[2], y[2])>>
\* x + y and x - y modulo 2^32
Add32(x, y) ==
    LET low == x[2] + y[2] IN <<(x[1] + y[1] + (low \div 65536)) % 65536, low % 65536>>
Sub32(x, y) ==
    LET borrow == IF x[2] < y[2] THEN 1 ELSE 0
    IN  <<(x[1] - y[1] - borrow) % 65536, (x[2] - y[2]) % 65536>>
\* x << NX_SHIFT_BY_16, x >> NX_SHIFT_BY_16 and x & NX_LOWER_16_MASK
ShiftLeft16(x) == <<x[2], 0>>
ShiftRight16(x) == x[1]
Lower16(x) == x[2]

VARIABLES
    mutex_owner,      \* ip_ptr -> nx_ip_protection: the owning thread or NX_NULL
    pc,               \* where each thread is
    call,             \* the arguments of each thread's current call
    ret_status,       \* the status each thread's last call returned
    lock_gets,        \* tx_mutex_get calls made by each thread's current call
    calls_made,       \* calls started so far
    tx_thread,        \* the TX_THREAD control block of each thread
    udp,              \* the NX_UDP_SOCKET control blocks
    udp_port_table,   \* ip_ptr -> nx_ip_udp_port_table
    tcp,              \* the NX_TCP_SOCKET control blocks
    ip_tcp,           \* nx_ip_tcp_active_connections, nx_ip_tcp_connections
    ip_gateway,       \* the gateway address of the IP instance, or 0
    tcp_syns,         \* the SYN packets sent: <<socket, sequence number>>
    pool_available,   \* free packets of nx_ip_default_packet_pool
    ip_igmp,          \* nx_ip_igmp_reports_sent, nx_ip_igmp_router_version
    ip_sent           \* the packets handed to _nx_ip_packet_send, not yet released

threadvars == <<mutex_owner, pc, call, ret_status, lock_gets, calls_made>>
udpvars == <<udp, udp_port_table>>
tcpvars == <<tcp, ip_tcp, ip_gateway, tcp_syns>>
igmpvars == <<pool_available, ip_igmp, ip_sent>>
vars == <<threadvars, tx_thread, udpvars, tcpvars, igmpvars>>

\* A call: the operation, the socket, the port and the wait option it was
\* given (known once the body has read them), whether it has suspended its
\* thread, and the TCP connection counters as the body found them.  The body
\* of connect adds server_ip, the body of report_send adds group_address,
\* interface_index and is_joining.
CallOf(op, socket, port, wait, suspended, counters) ==
    [op |-> op, socket |-> socket, port |-> port, wait |-> wait,
     suspended |-> suspended, counters |-> counters]

NoCounters == [active_connections |-> 0, connections |-> 0]
NoCall == CallOf("none", NX_NULL, 0, 0, FALSE, NoCounters)

(***************************************************************************)
(* tx_mutex_get / tx_mutex_put on ip_ptr -> nx_ip_protection.              *)
(***************************************************************************)
MutexFree == mutex_owner = NX_NULL

\* The first statement of every operation: tx_mutex_get(TX_WAIT_FOREVER).
\* The calling thread blocks until the mutex is free.  The arguments of the
\* call are local to the thread; the body draws them when it first reads them.
EnterLocked(t, label) ==
    /\ pc[t] \in {"idle", "ret"}
    /\ calls_made.all < MaxCalls
    /\ label = "connect" => calls_made.connect < MaxConnectCalls
    /\ label = "report" => calls_made.report < MaxReportCalls
    /\ MutexFree
    /\ mutex_owner' = t
    /\ pc' = [pc EXCEPT ![t] = label]
    /\ call' = [call EXCEPT ![t] = CallOf(label, NX_NULL, 0, 0, FALSE, NoCounters)]
    /\ lock_gets' = [lock_gets EXCEPT ![t] = 1]
    /\ calls_made' = [all |-> calls_made.all + 1,
                      connect |-> calls_made.connect + (IF label = "connect" THEN 1 ELSE 0),
                      report |-> calls_made.report + (IF label = "report" THEN 1 ELSE 0)]
    /\ UNCHANGED ret_status

\* tx_mutex_put followed by return(status).
ReturnUnlocked(t, c, status) ==
    /\ mutex_owner' = NX_NULL
    /\ pc' = [pc EXCEPT ![t] = "ret"]
    /\ ret_status' = [ret_status EXCEPT ![t] = status]
    /\ call' = [call EXCEPT ![t] = c]
    /\ UNCHANGED <<lock_gets, calls_made>>

(***************************************************************************)
(* The UDP port table.                                                     *)
(***************************************************************************)
\* index = (port + (port >> 8)) & NX_UDP_PORT_TABLE_MASK
UdpHash(port) == (port + (port \div 256)) % NX_UDP_PORT_TABLE_SIZE

\* The sockets reached from a bucket's head by bound_next, the head included.
RECURSIVE BucketFrom(_, _, _, _)
BucketFrom(u, cur, seen, fuel) ==
    IF cur = NX_NULL \/ cur \in seen \/ fuel = 0 THEN seen
    ELSE BucketFrom(u, u[cur].bound_next, seen \cup {cur}, fuel - 1)

OnBucket(u, table, b) == BucketFrom(u, table[b], {}, Cardinality(UdpSockets))

\* The sockets that hold a port of the table.
BoundPorts(u, table) ==
    {u[s].port : s \in UNION {OnBucket(u, table, b) : b \in DOMAIN table}}

\* _nx_udp_free_port_find: scan upward from the start for a port no bound
\* socket holds, wrapping from NX_MAX_PORT to NX_SEARCH_PORT_START; NX_NULL
\* stands for the status NX_NO_FREE_PORTS.
RECURSIVE FreePortScan(_, _, _)
FreePortScan(used, cur, start) ==
    IF cur \notin used THEN cur
    ELSE LET nxt == IF cur + 1 > NX_MAX_PORT THEN NX_SEARCH_PORT_START ELSE cur + 1
         IN  IF nxt = start THEN NX_NULL ELSE FreePortScan(used, nxt, start)

UdpFreePortFind(u, table, start) == FreePortScan(BoundPorts(u, table), start, start)

\* The do-while walk of the bucket's circular list: the result is the socket
\* whose port matches, or the head again when no socket matches.
RECURSIVE BucketWalk(_, _, _, _, _)
BucketWalk(u, search_ptr, end_ptr, port, fuel) ==
    IF u[search_ptr].port = port \/ fuel = 0 THEN search_ptr
    ELSE LET nxt == u[search_ptr].bound_next
         IN  IF nxt = end_ptr \/ nxt = NX_NULL THEN end_ptr
             ELSE BucketWalk(u, nxt, end_ptr, port, fuel - 1)

\* A search that stops at the head of the bucket.
BucketSearchHeadOnly(u, table, index, port) ==
    table[index]

BucketSearch(u, table, index, port) ==
    IF table[index] = NX_NULL THEN NX_NULL
    ELSE BucketWalk(u, table[index], table[index], port, Cardinality(UdpSockets))

\* A test that takes the port for available when the walk ended on a socket
\* that holds it.
PortAvailableOnMatch(u, search_ptr, port) ==
    search_ptr = NX_NULL \/ u[search_ptr].port = port

\* "Now determine if the port is available."
PortAvailable(u, search_ptr, port) ==
    search_ptr = NX_NULL \/ u[search_ptr].port # port

\* A splice that makes the new socket the head of a bucket that was not empty.
BucketSpliceAsHead(u, table, index, s, search_ptr) ==
    IF search_ptr # NX_NULL
    THEN LET head == table[index]
             u1 == [u EXCEPT ![s].bound_next = head]
             u2 == [u1 EXCEPT ![s].bound_previous = u1[head].bound_previous]
             u3 == [u2 EXCEPT ![u2[head].bound_previous].bound_next = s]
             u4 == [u3 EXCEPT ![head].bound_previous = s]
         IN  [udp |-> u4, table |-> [table EXCEPT ![index] = s]]
    ELSE [udp |-> [u EXCEPT ![s].bound_next = s, ![s].bound_previous = s],
          table |-> [table EXCEPT ![index] = s]]

\* A splice that takes the head, not the old tail, for the new socket's
\* bound_previous.
BucketSpliceBehindHead(u, table, index, s, search_ptr) ==
    IF search_ptr # NX_NULL
    THEN LET head == table[index]
             u1 == [u EXCEPT ![s].bound_next = head]
             u2 == [u1 EXCEPT ![s].bound_previous = head]
             u3 == [u2 EXCEPT ![u[head].bound_previous].bound_next = s]
             u4 == [u3 EXCEPT ![head].bound_previous = s]
         IN  [udp |-> u4, table |-> table]
    ELSE [udp |-> [u EXCEPT ![s].bound_next = s, ![s].bound_previous = s],
          table |-> [table EXCEPT ![index] = s]]

\* A splice that leaves out the write of the old tail's bound_next.
BucketSpliceWithoutTailLink(u, table, index, s, search_ptr) ==
    IF search_ptr # NX_NULL
    THEN LET head == table[index]
             u1 == [u EXCEPT ![s].bound_next = head]
             u2 == [u1 EXCEPT ![s].bound_previous = u1[head].bound_previous]
             u4 == [u2 EXCEPT ![head].bound_previous = s]
         IN  [udp |-> u4, table |-> table]
    ELSE [udp |-> [u EXCEPT ![s].bound_next = s, ![s].bound_previous = s],
          table |-> [table EXCEPT ![index] = s]]

\* The four pointer writes that add the socket at the end of a bucket's list,
\* or the three that make it the only socket of an empty bucket; the result
\* is the pair of the sockets and the table.
BucketSplice(u, table, index, s, search_ptr) ==
    IF search_ptr # NX_NULL
    THEN LET head == table[index]
             u1 == [u EXCEPT ![s].bound_next = head]
             u2 == [u1 EXCEPT ![s].bound_previous = u1[head].bound_previous]
             u3 == [u2 EXCEPT ![u2[head].bound_previous].bound_next = s]
             u4 == [u3 EXCEPT ![head].bound_previous = s]
         IN  [udp |-> u4, table |-> table]
    ELSE [udp |-> [u EXCEPT ![s].bound_next = s, ![s].bound_previous = s],
          table |-> [table EXCEPT ![index] = s]]

\* An append that leaves the head's suspended_previous on the old tail.
SuspensionAppendWithoutBackLink(u, th, owner, t) ==
    LET head == u[owner].bind_suspension_list IN
    IF head # NX_NULL
    THEN LET th1 == [th EXCEPT ![t].suspended_next = head]
             th2 == [th1 EXCEPT ![t].suspended_previous = th1[head].suspended_previous]
             th3 == [th2 EXCEPT ![th2[head].suspended_previous].suspended_next = t]
         IN  [udp |-> u, thr |-> th3]
    ELSE [udp |-> [u EXCEPT ![owner].bind_suspension_list = t],
          thr |-> [th EXCEPT ![t].suspended_next = t, ![t].suspended_previous = t]]

\* The thread is put on the owning socket's suspension list and made its head.
SuspensionAppendAtHead(u, th, owner, t) ==
    LET head == u[owner].bind_suspension_list IN
    IF head # NX_NULL
    THEN LET th1 == [th EXCEPT ![t].suspended_next = head]
             th2 == [th1 EXCEPT ![t].suspended_previous = th1[head].suspended_previous]
             th3 == [th2 EXCEPT ![th2[head].suspended_previous].suspended_next = t]
             th4 == [th3 EXCEPT ![head].suspended_previous = t]
         IN  [udp |-> [u EXCEPT ![owner].bind_suspension_list = t], thr |-> th4]
    ELSE [udp |-> [u EXCEPT ![owner].bind_suspension_list = t],
          thr |-> [th EXCEPT ![t].suspended_next = t, ![t].suspended_previous = t]]

\* The thread is put at the end of the owning socket's suspension list; the
\* result is the pair of the sockets and the threads.
SuspensionAppend(u, th, owner, t) ==
    LET head == u[owner].bind_suspension_list IN
    IF head # NX_NULL
    THEN LET th1 == [th EXCEPT ![t].suspended_next = head]
             th2 == [th1 EXCEPT ![t].suspended_previous = th1[head].suspended_previous]
             th3 == [th2 EXCEPT ![th2[head].suspended_previous].suspended_next = t]
             th4 == [th3 EXCEPT ![head].suspended_previous = t]
         IN  [udp |-> u, thr |-> th4]
    ELSE [udp |-> [u EXCEPT ![owner].bind_suspension_list = t],
          thr |-> [th EXCEPT ![t].suspended_next = t, ![t].suspended_previous = t]]

(***************************************************************************)
(* _nx_udp_socket_bind                                                     *)
(***************************************************************************)
BindEnter(t) ==
    /\ EnterLocked(t, "bind")
    /\ UNCHANGED <<tx_thread, udpvars, tcpvars, igmpvars>>

\* A test of the socket that looks at bound_next only.
BindAlreadyOnList(s) == udp[s].bound_next # NX_NULL

\* "Determine if the socket has already been bound to port or if a socket
\* bind is already pending from another thread."
BindAlreadyBound(s) ==
    udp[s].bound_next # NX_NULL \/ udp[s].bind_in_progress # NX_NULL

\* The socket is placed on the list of bound ports; NX_SUCCESS.
BindSplice(t, c, index, search_ptr, u) ==
    LET r == BucketSplice(u, udp_port_table, index, c.socket, search_ptr) IN
    /\ udp' = r.udp
    /\ udp_port_table' = r.table
    /\ ReturnUnlocked(t, c, "NX_SUCCESS")
    /\ UNCHANGED tx_thread

\* A registration that stores no cleanup routine on the thread.
BindRegisterWithoutCleanup(t, c, search_ptr, u) ==
    LET s   == c.socket
        th1 == [tx_thread EXCEPT ![t].suspend_control_block = s]
        u1  == [u EXCEPT ![s].bound_previous = search_ptr,
                         ![s].bind_in_progress = t]
        r   == SuspensionAppend(u1, th1, search_ptr, t)
        u2  == [r.udp EXCEPT ![search_ptr].bind_suspended_count = @ + 1]
        th2 == [r.thr EXCEPT ![t].state = "TX_TCP_IP",
                             ![t].suspending = TRUE,
                             ![t].remaining_ticks = c.wait]
    IN  [udp |-> u2, thr |-> th2]

\* A registration that counts the suspended thread twice on the owning socket.
BindRegisterCountedTwice(t, c, search_ptr, u) ==
    LET s   == c.socket
        th1 == [tx_thread EXCEPT ![t].suspend_cleanup = "_nx_udp_bind_cleanup",
                                 ![t].suspend_control_block = s]
        u1  == [u EXCEPT ![s].bound_previous = search_ptr,
                         ![s].bind_in_progress = t]
        r   == SuspensionAppend(u1, th1, search_ptr, t)
        u2  == [r.udp EXCEPT ![search_ptr].bind_suspended_count = @ + 2]
        th2 == [r.thr EXCEPT ![t].state = "TX_TCP_IP",
                             ![t].suspending = TRUE,
                             ![t].remaining_ticks = c.wait]
    IN  [udp |-> u2, thr |-> th2]

\* The port is taken and the caller waits: the cleanup routine and the
\* control block are stored on the thread, the socket records the thread as
\* its bind in progress, the thread is appended to the owning socket's
\* suspension list and the thread is marked suspending.  The result is the
\* pair of the sockets and the threads.
BindRegister(t, c, search_ptr, u) ==
    LET s   == c.socket
        th1 == [tx_thread EXCEPT ![t].suspend_cleanup = "_nx_udp_bind_cleanup",
                                 ![t].suspend_control_block = s]
        u1  == [u EXCEPT ![s].bound_previous = search_ptr,
                         ![s].bind_in_progress = t]
        r   == SuspensionAppend(u1, th1, search_ptr, t)
        u2  == [r.udp EXCEPT ![search_ptr].bind_suspended_count = @ + 1]
        th2 == [r.thr EXCEPT ![t].state = "TX_TCP_IP",
                             ![t].suspending = TRUE,
                             ![t].remaining_ticks = c.wait]
    IN  [udp |-> u2, thr |-> th2]

\* A bind that suspends its thread without tx_mutex_put.
BindSuspendHoldingMutex(t, c, search_ptr, u) ==
    LET r == BindRegister(t, c, search_ptr, u) IN
    /\ udp' = r.udp
    /\ tx_thread' = r.thr
    /\ pc' = [pc EXCEPT ![t] = "bind_wait"]
    /\ call' = [call EXCEPT ![t] = [c EXCEPT !.suspended = TRUE]]
    /\ UNCHANGED <<mutex_owner, udp_port_table, ret_status, lock_gets, calls_made>>

\* The registration, tx_mutex_put and _tx_thread_system_suspend.  Preemption
\* is disabled from the registration to the suspension, so no other thread
\* runs in between.
BindSuspend(t, c, search_ptr, u) ==
    LET r == BindRegister(t, c, search_ptr, u) IN
    /\ udp' = r.udp
    /\ tx_thread' = r.thr
    /\ mutex_owner' = NX_NULL
    /\ pc' = [pc EXCEPT ![t] = "bind_wait"]
    /\ call' = [call EXCEPT ![t] = [c EXCEPT !.suspended = TRUE]]
    /\ UNCHANGED <<udp_port_table, ret_status, lock_gets, calls_made>>

\* A bind that returns NX_PORT_UNAVAILABLE without tx_mutex_put.
BindUnavailableHoldingMutex(t, c, u) ==
    /\ udp' = u
    /\ pc' = [pc EXCEPT ![t] = "ret"]
    /\ ret_status' = [ret_status EXCEPT ![t] = "NX_PORT_UNAVAILABLE"]
    /\ call' = [call EXCEPT ![t] = c]
    /\ UNCHANGED <<mutex_owner, lock_gets, calls_made, tx_thread, udp_port_table>>

\* A bind that records its thread as the bind in progress before it finds the
\* port taken, and returns NX_PORT_UNAVAILABLE without clearing the record.
BindUnavailableInProgress(t, c, u) ==
    /\ udp' = [u EXCEPT ![c.socket].bind_in_progress = t]
    /\ ReturnUnlocked(t, c, "NX_PORT_UNAVAILABLE")
    /\ UNCHANGED <<tx_thread, udp_port_table>>

\* The port is taken and the caller does not wait.
BindUnavailable(t, c, u) ==
    /\ udp' = u
    /\ ReturnUnlocked(t, c, "NX_PORT_UNAVAILABLE")
    /\ UNCHANGED <<tx_thread, udp_port_table>>

\* A bind that suspends on a taken port whatever the wait option.
BindBodyWaitingAlways(t, s, port_arg, wait_option) ==
    LET c == CallOf("bind", s, port_arg, wait_option, FALSE, NoCounters) IN
    IF BindAlreadyBound(s)
    THEN /\ ReturnUnlocked(t, c, "NX_ALREADY_BOUND")
         /\ UNCHANGED <<tx_thread, udp, udp_port_table>>
    ELSE \E start \in NX_SEARCH_PORT_START .. NX_MAX_PORT :
         LET port == IF port_arg = NX_ANY_PORT
                     THEN UdpFreePortFind(udp, udp_port_table, start)
                     ELSE port_arg
         IN  IF port = NX_NULL
             THEN /\ ReturnUnlocked(t, c, "NX_NO_FREE_PORTS")
                  /\ UNCHANGED <<tx_thread, udp, udp_port_table>>
             ELSE LET u == [udp EXCEPT ![s].port = port]
                      index == UdpHash(port)
                      search_ptr == BucketSearch(u, udp_port_table, index, port)
                  IN  IF PortAvailable(u, search_ptr, port)
                      THEN BindSplice(t, c, index, search_ptr, u)
                      ELSE BindSuspend(t, c, search_ptr, u)

\* The function from the test of the socket to the release of the mutex,
\* for the socket, the port and the wait option the caller passed.
BindBody(t, s, port_arg, wait_option) ==
    LET c == CallOf("bind", s, port_arg, wait_option, FALSE, NoCounters) IN
    IF BindAlreadyBound(s)
    THEN /\ ReturnUnlocked(t, c, "NX_ALREADY_BOUND")
         /\ UNCHANGED <<tx_thread, udp, udp_port_table>>
    ELSE \E start \in NX_SEARCH_PORT_START .. NX_MAX_PORT :
         LET port == IF port_arg = NX_ANY_PORT
                     THEN UdpFreePortFind(udp, udp_port_table, start)
                     ELSE port_arg
         IN  IF port = NX_NULL
             THEN /\ ReturnUnlocked(t, c, "NX_NO_FREE_PORTS")
                  /\ UNCHANGED <<tx_thread, udp, udp_port_table>>
             ELSE LET u == [udp EXCEPT ![s].port = port]
                      index == UdpHash(port)
                      search_ptr == BucketSearch(u, udp_port_table, index, port)
                  IN  IF PortAvailable(u, search_ptr, port)
                      THEN BindSplice(t, c, index, search_ptr, u)
                      ELSE IF wait_option # 0
                      THEN BindSuspend(t, c, search_ptr, u)
                      ELSE BindUnavailable(t, c, u)

BindOver(t, sockets, ports) ==
    /\ pc[t] = "bind"
    /\ UNCHANGED <<tcpvars, igmpvars>>
    /\ \E s \in sockets, port \in ports, wait \in WaitOptions :
           BindBody(t, s, port, wait)

Bind(t) == BindOver(t, UdpSockets, BindPorts)

\* return(thread_ptr -> tx_thread_suspend_status), once the thread runs again.
BindResume(t) ==
    /\ pc[t] = "bind_wait"
    /\ tx_thread[t].state = "TX_READY"
    /\ pc' = [pc EXCEPT ![t] = "ret"]
    /\ ret_status' = [ret_status EXCEPT ![t] = tx_thread[t].suspend_status]
    /\ UNCHANGED <<mutex_owner, call, lock_gets, calls_made, tx_thread, udpvars, tcpvars, igmpvars>>

(***************************************************************************)
(* The collaborators of bind: unbind by the port's owner and the cleanup   *)
(* routine registered on a suspended binder.                               *)
(***************************************************************************)
\* The threads reached from a suspension list's head by suspended_next.
RECURSIVE ThreadsFrom(_, _, _, _)
ThreadsFrom(th, cur, seen, fuel) ==
    IF cur = NX_NULL \/ cur \in seen \/ fuel = 0 THEN seen
    ELSE ThreadsFrom(th, th[cur].suspended_next, seen \cup {cur}, fuel - 1)

SuspendedOn(u, th, owner) ==
    ThreadsFrom(th, u[owner].bind_suspension_list, {}, Cardinality(Threads))

\* The thread is taken off the owning socket's suspension list and the
\* socket's count of suspended threads is decremented.
SuspensionRemove(u, th, owner, t) ==
    IF th[t].suspended_next = t
    THEN [udp |-> [u EXCEPT ![owner].bind_suspension_list = NX_NULL,
                            ![owner].bind_suspended_count = @ - 1],
          thr |-> th]
    ELSE LET nxt == th[t].suspended_next
             prv == th[t].suspended_previous
             th1 == [th EXCEPT ![nxt].suspended_previous = prv]
             th2 == [th1 EXCEPT ![prv].suspended_next = nxt]
         IN  [udp |-> [u EXCEPT ![owner].bind_suspension_list =
                                     IF @ = t THEN nxt ELSE @,
                                ![owner].bind_suspended_count = @ - 1],
              thr |-> th2]

\* The socket is taken off its bucket's circular list.
BucketRemove(u, table, index, s) ==
    IF u[s].bound_next = s
    THEN [udp |-> [u EXCEPT ![s].bound_next = NX_NULL],
          table |-> [table EXCEPT ![index] = NX_NULL]]
    ELSE LET nxt == u[s].bound_next
             prv == u[s].bound_previous
             u1 == [u EXCEPT ![nxt].bound_previous = prv]
             u2 == [u1 EXCEPT ![prv].bound_next = nxt]
         IN  [udp |-> [u2 EXCEPT ![s].bound_next = NX_NULL],
              table |-> [table EXCEPT ![index] = IF @ = s THEN nxt ELSE @]]

\* _nx_udp_bind_cleanup, called by the thread system on the timeout or the
\* abort of a suspended binder: under the mutex the thread is unlinked, the
\* count decremented, bind_in_progress cleared and the thread resumed with
\* NX_PORT_UNAVAILABLE.
UdpBindCleanup(t) ==
    /\ tx_thread[t].suspend_cleanup = "_nx_udp_bind_cleanup"
    /\ MutexFree
    /\ LET s == tx_thread[t].suspend_control_block
           owner == CHOOSE o \in UdpSockets : t \in SuspendedOn(udp, tx_thread, o)
           r == SuspensionRemove(udp, tx_thread, owner, t)
       IN  /\ udp' = [r.udp EXCEPT ![s].bind_in_progress = IF @ = t THEN NX_NULL ELSE @]
           /\ tx_thread' = [r.thr EXCEPT ![t].suspend_cleanup = "NULL",
                                         ![t].suspend_status = "NX_PORT_UNAVAILABLE",
                                         ![t].state = "TX_READY",
                                         ![t].suspending = FALSE]
    /\ UNCHANGED <<threadvars, udp_port_table, tcpvars, igmpvars>>

UnbindEnter(t) ==
    /\ EnterLocked(t, "unbind")
    /\ UNCHANGED <<tx_thread, udpvars, tcpvars, igmpvars>>

\* The port is handed to the first thread suspended on the socket: its
\* socket takes the place on the bucket, inherits the threads still
\* suspended, and the thread is resumed with NX_SUCCESS.
UnbindHandOver(u, table, th, index, s) ==
    LET w == u[s].bind_suspension_list
        new_socket == th[w].suspend_control_block
        r == SuspensionRemove(u, th, s, w)
        u1 == [r.udp EXCEPT ![new_socket].bind_in_progress = NX_NULL,
                            ![new_socket].bind_suspension_list = r.udp[s].bind_suspension_list,
                            ![new_socket].bind_suspended_count = r.udp[s].bind_suspended_count,
                            ![s].bind_suspension_list = NX_NULL,
                            ![s].bind_suspended_count = 0]
        b == BucketSplice(u1, table, index, new_socket, table[index])
    IN  [udp |-> b.udp, table |-> b.table,
         thr |-> [r.thr EXCEPT ![w].suspend_cleanup = "NULL",
                               ![w].suspend_status = "NX_SUCCESS",
                               ![w].state = "TX_READY",
                               ![w].suspending = FALSE]]

\* _nx_udp_socket_unbind from the test of the socket to the release of the
\* mutex.
UnbindBody(t, s) ==
    LET c == CallOf("unbind", s, 0, 0, FALSE, NoCounters) IN
    IF udp[s].bound_next = NX_NULL
    THEN /\ ReturnUnlocked(t, c, "NX_NOT_BOUND")
         /\ UNCHANGED <<tx_thread, udp, udp_port_table>>
    ELSE LET index == UdpHash(udp[s].port)
             r == BucketRemove(udp, udp_port_table, index, s)
         IN  IF udp[s].bind_suspension_list = NX_NULL
             THEN /\ udp' = r.udp
                  /\ udp_port_table' = r.table
                  /\ UNCHANGED tx_thread
                  /\ ReturnUnlocked(t, c, "NX_SUCCESS")
             ELSE LET h == UnbindHandOver(r.udp, r.table, tx_thread, index, s)
                  IN  /\ udp' = h.udp
                      /\ udp_port_table' = h.table
                      /\ tx_thread' = h.thr
                      /\ ReturnUnlocked(t, c, "NX_SUCCESS")

UnbindOver(t, sockets) ==
    /\ pc[t] = "unbind"
    /\ UNCHANGED <<tcpvars, igmpvars>>
    /\ \E s \in sockets : UnbindBody(t, s)

Unbind(t) == UnbindOver(t, UdpSockets)

(***************************************************************************)
(* The interfaces and the routes of the IP instance.                       *)
(***************************************************************************)
IP_ADDRESS(a, b, c, d) == <<a * 256 + b, c * 256 + d>>

\* nx_ip_interface[]: interface 0 carries a full-size MTU, the MTU of
\* interface 1 is below the size of an IP and a TCP header.
Interfaces ==
    [i \in {0, 1} |->
        IF i = 0
        THEN [address |-> IP_ADDRESS(192, 168, 0, 1), mask |-> IP_ADDRESS(255, 255, 255, 0),
              mtu_size |-> 1500]
        ELSE [address |-> IP_ADDRESS(10, 0, 0, 1), mask |-> IP_ADDRESS(255, 255, 255, 0),
              mtu_size |-> 20]]

GatewayAddress == IP_ADDRESS(192, 168, 0, 254)

NetworkOf(x, mask) == And32(x, mask)

\* _nx_ip_route_find: a destination on the subnet of an interface is its own
\* next hop on that interface; any other goes to the gateway when one is
\* configured, and is unreachable otherwise.
IpRouteFind(gateway, dst) ==
    LET direct == {i \in DOMAIN Interfaces :
                     NetworkOf(dst, Interfaces[i].mask)
                       = NetworkOf(Interfaces[i].address, Interfaces[i].mask)}
    IN  IF direct # {}
        THEN [status |-> "NX_SUCCESS", interface |-> CHOOSE i \in direct : TRUE,
              next_hop |-> dst]
        ELSE IF gateway # Zero32
        THEN [status |-> "NX_SUCCESS",
              interface |-> CHOOSE i \in DOMAIN Interfaces :
                              NetworkOf(gateway, Interfaces[i].mask)
                                = NetworkOf(Interfaces[i].address, Interfaces[i].mask),
              next_hop |-> gateway]
        ELSE [status |-> "NX_IP_ADDRESS_ERROR", interface |-> NX_NULL, next_hop |-> Zero32]

(***************************************************************************)
(* _nx_tcp_client_socket_connect                                           *)
(***************************************************************************)
TcpSockets == {1, 2}
\* The servers the callers connect to: an address of the IP instance itself,
\* a host on the subnet of interface 1, a host beyond the gateway.
ServerIps == {IP_ADDRESS(192, 168, 0, 1), IP_ADDRESS(10, 0, 0, 5), IP_ADDRESS(8, 8, 8, 8)}
ServerPorts == {80}
\* The values NX_RAND() returns.
RandDraws == {0, 65535}
\* sizeof(NX_IP_HEADER) + sizeof(NX_TCP_HEADER)
IpTcpHeaderSize == 40
\* interface index -> the pointer value stored in the socket
InterfacePtr(i) == i + 1

ConnectEnter(t) ==
    /\ EnterLocked(t, "connect")
    /\ UNCHANGED <<tx_thread, udpvars, tcpvars, igmpvars>>

\* ip_ptr -> nx_ip_tcp_active_connections++, nx_ip_tcp_connections++
TcpCountersUp(c) ==
    [active_connections |-> c.active_connections + 1, connections |-> c.connections + 1]

\* ip_ptr -> nx_ip_tcp_active_connections--, nx_ip_tcp_connections--
TcpCountersDown(c) ==
    [active_connections |-> c.active_connections - 1, connections |-> c.connections - 1]

\* The state moves to SYN SENT and the server is saved in the socket; the
\* next hop was stored by the route lookup.
ConnectBegin(sk, next_hop, server_ip, server_port) ==
    [sk EXCEPT !.next_hop_address = next_hop,
               !.state = "NX_TCP_SYN_SENT",
               !.connect_ip = server_ip,
               !.connect_port = server_port]

\* "Interface MTU size is smaller than IP and TCP header size."
MtuTooSmall(interface) == Interfaces[interface].mtu_size < IpTcpHeaderSize

\* A rollback that leaves the next hop the route lookup stored.
ConnectRollbackKeepingNextHop(sk) ==
    [sk EXCEPT !.state = "NX_TCP_CLOSED",
               !.connect_ip = Zero32,
               !.connect_port = 0]

\* The socket is put back as it was on the invalid interface.
ConnectRollback(sk) ==
    [sk EXCEPT !.state = "NX_TCP_CLOSED",
               !.connect_ip = Zero32,
               !.connect_port = 0,
               !.next_hop_address = Zero32]

\* An initial sequence number that advances by the random draw alone.
InitialSequenceWithoutStride(tx_sequence, r1, r2) ==
    IF tx_sequence = Zero32
    THEN Or32(ShiftLeft16(Ulong(r1)), Ulong(r2))
    ELSE Add32(tx_sequence, Ulong(r1))

\* "Setup the initial sequence number", before it is incremented.
InitialSequence(tx_sequence, r1, r2) ==
    IF tx_sequence = Zero32
    THEN Or32(ShiftLeft16(Ulong(r1)), Ulong(r2))
    ELSE Add32(Add32(tx_sequence, <<1, 0>>), Ulong(r1))

\* From the interface to the cleared queues: what connect writes to the
\* socket before it sends the SYN.
ConnectSetup(sk, interface, r1, r2) ==
    [sk EXCEPT !.connect_interface = InterfacePtr(interface),
               !.tx_sequence = Add32(InitialSequence(sk.tx_sequence, r1, r2), Ulong(1)),
               !.rx_window_current = sk.rx_window_default,
               !.rx_window_last_sent = sk.rx_window_default,
               !.fin_received = FALSE,
               !.timeout = sk.timeout_rate,
               !.timeout_retries = 0,
               !.tx_window_congestion = 0,
               !.tx_outstanding_bytes = 0,
               !.packets_sent = 0,
               !.bytes_sent = 0,
               !.packets_received = 0,
               !.bytes_received = 0,
               !.retransmit_packets = 0,
               !.checksum_errors = 0,
               !.transmit_sent_head = NX_NULL,
               !.transmit_sent_tail = NX_NULL,
               !.transmit_sent_count = 0,
               !.receive_queue_count = 0,
               !.receive_queue_head = NX_NULL,
               !.receive_queue_tail = NX_NULL]

\* The sequence number passed to _nx_tcp_packet_send_syn.
SynSequence(sk) == Sub32(sk.tx_sequence, Ulong(1))

\* A suspension that does not look at the calling thread.
ConnectSuspendsAnyThread(t, wait) == wait # 0

\* "Optionally suspend the thread."
ConnectSuspends(t, wait) == wait # 0 /\ t # IpThread

\* _nx_tcp_socket_thread_suspend: the thread is stored in the socket's
\* connect_suspended_thread, the cleanup routine and the socket are
\* registered on the thread, the mutex is released and the thread suspends.
TcpSocketThreadSuspend(t, c, sk) ==
    /\ tcp' = [tcp EXCEPT ![c.socket] = [sk EXCEPT !.connect_suspended_thread = t]]
    /\ tx_thread' = [tx_thread EXCEPT ![t].suspend_cleanup = "_nx_tcp_connect_cleanup",
                                      ![t].suspend_control_block = c.socket,
                                      ![t].state = "TX_TCP_IP",
                                      ![t].suspending = TRUE,
                                      ![t].remaining_ticks = c.wait]
    /\ mutex_owner' = NX_NULL
    /\ pc' = [pc EXCEPT ![t] = "connect_wait"]
    /\ call' = [call EXCEPT ![t] = [c EXCEPT !.suspended = TRUE]]
    /\ UNCHANGED <<ret_status, lock_gets, calls_made>>

\* _nx_tcp_packet_send_syn: the SYN is sent; a connection to a port of the
\* same IP instance may be complete when the call returns.
SynOutcomes(server_ip) ==
    IF \E i \in DOMAIN Interfaces : Interfaces[i].address = server_ip
    THEN BOOLEAN ELSE {FALSE}

TcpPacketSendSyn(sk, established) ==
    IF established THEN [sk EXCEPT !.state = "NX_TCP_ESTABLISHED"] ELSE sk

\* "Check if the socket connection has failed."
ConnectFailed(suspend_status) == suspend_status # "NX_SUCCESS"

\* After the SYN: the connection is complete, the caller suspends, or the
\* connection is in progress.
ConnectFinish(t, c, sk) ==
    IF sk.state = "NX_TCP_ESTABLISHED"
    THEN /\ tcp' = [tcp EXCEPT ![c.socket] = sk]
         /\ ReturnUnlocked(t, c, "NX_SUCCESS")
         /\ UNCHANGED tx_thread
    ELSE IF ConnectSuspends(t, c.wait)
    THEN TcpSocketThreadSuspend(t, c, sk)
    ELSE /\ tcp' = [tcp EXCEPT ![c.socket] = sk]
         /\ ReturnUnlocked(t, c, "NX_IN_PROGRESS")
         /\ UNCHANGED tx_thread

\* A connect that tests the state of the socket before its binding.
ConnectBodyStateFirst(t, s, server_ip, server_port, wait_option) ==
    LET c == CallOf("connect", s, server_port, wait_option, FALSE, ip_tcp)
                 @@ [server_ip |-> server_ip]
        route == IpRouteFind(ip_gateway, server_ip)
    IN
    IF tcp[s].state # "NX_TCP_CLOSED"
    THEN /\ ReturnUnlocked(t, c, "NX_NOT_CLOSED")
         /\ UNCHANGED <<tx_thread, tcp, ip_tcp, tcp_syns>>
    ELSE IF tcp[s].bound_next = NX_NULL
    THEN /\ ReturnUnlocked(t, c, "NX_NOT_BOUND")
         /\ UNCHANGED <<tx_thread, tcp, ip_tcp, tcp_syns>>
    ELSE IF route.status # "NX_SUCCESS"
    THEN /\ ReturnUnlocked(t, c, "NX_IP_ADDRESS_ERROR")
         /\ UNCHANGED <<tx_thread, tcp, ip_tcp, tcp_syns>>
    ELSE LET sk1 == ConnectBegin(tcp[s], route.next_hop, server_ip, server_port) IN
         IF MtuTooSmall(route.interface)
         THEN /\ ip_tcp' = TcpCountersDown(TcpCountersUp(ip_tcp))
              /\ tcp' = [tcp EXCEPT ![s] = ConnectRollback(sk1)]
              /\ ReturnUnlocked(t, c, "NX_INVALID_INTERFACE")
              /\ UNCHANGED <<tx_thread, tcp_syns>>
         ELSE \E r1 \in RandDraws, r2 \in RandDraws, established \in SynOutcomes(server_ip) :
              LET sk2 == ConnectSetup(sk1, route.interface, r1, r2)
                  sk3 == TcpPacketSendSyn(sk2, established)
              IN  /\ ip_tcp' = TcpCountersUp(ip_tcp)
                  /\ tcp_syns' = Append(tcp_syns, <<s, SynSequence(sk2)>>)
                  /\ ConnectFinish(t, c, sk3)

\* The function from the test of the socket to the release of the mutex,
\* for the socket, the server and the wait option the caller passed.
ConnectBody(t, s, server_ip, server_port, wait_option) ==
    LET c == CallOf("connect", s, server_port, wait_option, FALSE, ip_tcp)
                 @@ [server_ip |-> server_ip]
        route == IpRouteFind(ip_gateway, server_ip)
    IN
    IF tcp[s].bound_next = NX_NULL
    THEN /\ ReturnUnlocked(t, c, "NX_NOT_BOUND")
         /\ UNCHANGED <<tx_thread, tcp, ip_tcp, tcp_syns>>
    ELSE IF tcp[s].state # "NX_TCP_CLOSED"
    THEN /\ ReturnUnlocked(t, c, "NX_NOT_CLOSED")
         /\ UNCHANGED <<tx_thread, tcp, ip_tcp, tcp_syns>>
    ELSE IF route.status # "NX_SUCCESS"
    THEN /\ ReturnUnlocked(t, c, "NX_IP_ADDRESS_ERROR")
         /\ UNCHANGED <<tx_thread, tcp, ip_tcp, tcp_syns>>
    ELSE LET sk1 == ConnectBegin(tcp[s], route.next_hop, server_ip, server_port) IN
         IF MtuTooSmall(route.interface)
         THEN /\ ip_tcp' = TcpCountersDown(TcpCountersUp(ip_tcp))
              /\ tcp' = [tcp EXCEPT ![s] = ConnectRollback(sk1)]
              /\ ReturnUnlocked(t, c, "NX_INVALID_INTERFACE")
              /\ UNCHANGED <<tx_thread, tcp_syns>>
         ELSE \E r1 \in RandDraws, r2 \in RandDraws, established \in SynOutcomes(server_ip) :
              LET sk2 == ConnectSetup(sk1, route.interface, r1, r2)
                  sk3 == TcpPacketSendSyn(sk2, established)
              IN  /\ ip_tcp' = TcpCountersUp(ip_tcp)
                  /\ tcp_syns' = Append(tcp_syns, <<s, SynSequence(sk2)>>)
                  /\ ConnectFinish(t, c, sk3)

ConnectOver(t, sockets, servers) ==
    /\ pc[t] = "connect"
    /\ UNCHANGED <<udpvars, igmpvars, ip_gateway>>
    /\ \E s \in sockets, ip \in servers, port \in ServerPorts, wait \in WaitOptions :
           ConnectBody(t, s, ip, port, wait)

Connect(t) == ConnectOver(t, TcpSockets, ServerIps)

\* The code after _nx_tcp_socket_thread_suspend, once the thread runs again:
\* a failed connection puts the socket back to CLOSED; the suspend status is
\* the completion code.
ConnectResume(t) ==
    /\ pc[t] = "connect_wait"
    /\ tx_thread[t].state = "TX_READY"
    /\ LET s == call[t].socket IN
       tcp' = IF ConnectFailed(tx_thread[t].suspend_status)
              THEN [tcp EXCEPT ![s].state = "NX_TCP_CLOSED"]
              ELSE tcp
    /\ pc' = [pc EXCEPT ![t] = "ret"]
    /\ ret_status' = [ret_status EXCEPT ![t] = tx_thread[t].suspend_status]
    /\ UNCHANGED <<mutex_owner, call, lock_gets, calls_made, tx_thread, udpvars, igmpvars,
                   ip_tcp, ip_gateway, tcp_syns>>

(***************************************************************************)
(* The collaborators of connect: the cleanup routine registered on the     *)
(* suspended caller and the receive path that completes the handshake.     *)
(***************************************************************************)
\* _nx_tcp_connect_cleanup, called by the thread system on the timeout or
\* the abort of a suspended connect: under the mutex the thread is taken out
\* of connect_suspended_thread and resumed with a failure status.
TcpConnectCleanup(t) ==
    /\ tx_thread[t].suspend_cleanup = "_nx_tcp_connect_cleanup"
    /\ MutexFree
    /\ LET s == tx_thread[t].suspend_control_block IN
       tcp' = [tcp EXCEPT ![s].connect_suspended_thread = IF @ = t THEN NX_NULL ELSE @]
    /\ tx_thread' = [tx_thread EXCEPT ![t].suspend_cleanup = "NULL",
                                      ![t].suspend_status = "NX_NOT_CONNECTED",
                                      ![t].state = "TX_READY",
                                      ![t].suspending = FALSE]
    /\ UNCHANGED <<threadvars, udpvars, igmpvars, ip_tcp, ip_gateway, tcp_syns>>

\* The receive path on the SYN+ACK of the server: under the mutex the socket
\* becomes ESTABLISHED and the thread suspended on the connect, if any, is
\* resumed with NX_SUCCESS.
TcpConnectionEstablished(s) ==
    /\ tcp[s].state = "NX_TCP_SYN_SENT"
    /\ MutexFree
    /\ LET w == tcp[s].connect_suspended_thread IN
       /\ tcp' = [tcp EXCEPT ![s].state = "NX_TCP_ESTABLISHED",
                             ![s].connect_suspended_thread = NX_NULL]
       /\ tx_thread' = IF w = NX_NULL THEN tx_thread
                       ELSE [tx_thread EXCEPT ![w].suspend_cleanup = "NULL",
                                              ![w].suspend_status = "NX_SUCCESS",
                                              ![w].state = "TX_READY",
                                              ![w].suspending = FALSE]
    /\ UNCHANGED <<threadvars, udpvars, igmpvars, ip_tcp, ip_gateway, tcp_syns>>

(***************************************************************************)
(* _nx_igmp_interface_report_send                                          *)
(***************************************************************************)
NX_TRUE == 1
NX_IGMP_HOST_VERSION_1 == 1
NX_IGMP_HEADER_SIZE == 8
\* The room a packet leaves in front of an IGMP message.
NX_IGMP_PACKET == 36
NX_IGMP_TTL == 1
\* The protocol field of the IP header's third word: protocol 2.
NX_IP_IGMP == <<2, 0>>
\* 0x10000000, 0x02000000, 0x16000000 and 0x17000000
NX_IGMP_VERSION == <<4096, 0>>
NX_IGMP_HOST_RESPONSE_TYPE == <<512, 0>>
NX_IGMP_HOST_V2_JOIN_TYPE == <<5632, 0>>
NX_IGMP_HOST_V2_LEAVE_TYPE == <<5888, 0>>
NX_ALL_ROUTERS_ADDRESS == IP_ADDRESS(224, 0, 0, 2)

\* The groups, the interfaces and the is_joining values the callers pass.
\* With the last one the sum of a v2 join's header is 0x1FFFF, which the
\* first fold takes to 0x10000.
Groups == {IP_ADDRESS(224, 0, 0, 42), IP_ADDRESS(239, 255, 255, 255),
           IP_ADDRESS(255, 255, 234, 0)}
InterfaceIndexes == {0, 1}
JoiningValues == {0, 1, 2}

ReportEnter(t) ==
    /\ EnterLocked(t, "report")
    /\ UNCHANGED <<tx_thread, udpvars, tcpvars, igmpvars>>

\* A first header word that does not look at the version of the router.
IgmpHeaderWord0AnyRouter(router_version, is_joining) ==
    IF is_joining # 0
    THEN NX_IGMP_HOST_V2_JOIN_TYPE
    ELSE NX_IGMP_HOST_V2_LEAVE_TYPE

\* The first header word before the checksum, by the version of the router.
IgmpHeaderWord0(router_version, is_joining) ==
    IF router_version = NX_IGMP_HOST_VERSION_1
    THEN Or32(NX_IGMP_VERSION, NX_IGMP_HOST_RESPONSE_TYPE)
    ELSE IF is_joining # 0
    THEN NX_IGMP_HOST_V2_JOIN_TYPE
    ELSE NX_IGMP_HOST_V2_LEAVE_TYPE

\* "Add in the carry bits into the checksum."
ChecksumFold(checksum) == (checksum \div 65536) + (checksum % 65536)

\* A checksum that adds the carry bits in once only.
IgmpChecksumFoldedOnce(word_0, word_1) ==
    LET sum == ShiftRight16(word_0) + Lower16(word_0)
               + ShiftRight16(word_1) + Lower16(word_1)
    IN  ChecksumFold(sum)

\* The checksum of the two header words, folded twice.
IgmpChecksum(word_0, word_1) ==
    LET sum == ShiftRight16(word_0) + Lower16(word_0)
               + ShiftRight16(word_1) + Lower16(word_1)
    IN  ChecksumFold(ChecksumFold(sum))

\* "Place the checksum into the first header word": word_0 | (~checksum & 0xFFFF)
IgmpPlaceChecksum(word_0, checksum) ==
    Or32(word_0, Ulong(65535 - (checksum % 65536)))

\* NX_CHANGE_ULONG_ENDIAN on a little endian build; nothing on a big endian one.
ChangeUlongEndian(little_endian, x) ==
    IF little_endian
    THEN <<(x[2] % 256) * 256 + (x[2] \div 256), (x[1] % 256) * 256 + (x[1] \div 256)>>
    ELSE x

\* The bytes of a ULONG in memory, lowest address first.
MemoryBytes(little_endian, x) ==
    LET b3 == x[1] \div 256
        b2 == x[1] % 256
        b1 == x[2] \div 256
        b0 == x[2] % 256
    IN  IF little_endian THEN <<b0, b1, b2, b3>> ELSE <<b3, b2, b1, b0>>

\* "if (is_joining == NX_TRUE)": the test of the counter and of the destination.
IsJoinReport(is_joining) == is_joining = NX_TRUE

\* A destination that is the group for a leave as well.
ReportDestinationGroup(group_address, is_joining) ==
    group_address

\* The destination and next hop of the report.
ReportDestination(group_address, is_joining) ==
    IF IsJoinReport(is_joining) THEN group_address ELSE NX_ALL_ROUTERS_ADDRESS

\* The packet as report_send hands it to _nx_ip_packet_send, and the
\* arguments of that call.
ReportPacket(little_endian, router_version, group_address, interface_index, is_joining) ==
    LET word_0 == IgmpHeaderWord0(router_version, is_joining)
        word_1 == group_address
        checksum == IgmpChecksum(word_0, word_1)
    IN  [length |-> NX_IGMP_HEADER_SIZE,
         prepend_offset |-> (NX_IGMP_PACKET + NX_IGMP_HEADER_SIZE) - NX_IGMP_HEADER_SIZE,
         ip_interface |-> interface_index,
         header_word_0 |-> ChangeUlongEndian(little_endian, IgmpPlaceChecksum(word_0, checksum)),
         header_word_1 |-> ChangeUlongEndian(little_endian, word_1),
         next_hop_address |-> ReportDestination(group_address, is_joining),
         destination |-> ReportDestination(group_address, is_joining),
         type_of_service |-> "NX_IP_NORMAL",
         time_to_live |-> NX_IGMP_TTL,
         protocol |-> NX_IP_IGMP,
         fragment |-> "NX_FRAGMENT_OKAY"]

\* nx_ip_igmp_reports_sent after the report.
ReportsSentAfter(reports_sent, is_joining) ==
    IF IsJoinReport(is_joining) THEN reports_sent + 1 ELSE reports_sent

\* A report that counts itself before the packet is allocated.
ReportBodyCountingFirst(t, group_address, interface_index, is_joining) ==
    LET c == CallOf("report", NX_NULL, 0, 0, FALSE, NoCounters)
                 @@ [group_address |-> group_address,
                     interface_index |-> interface_index,
                     is_joining |-> is_joining]
    IN
    IF pool_available = 0
    THEN /\ ReturnUnlocked(t, c, "NX_NO_PACKET")
         /\ ip_igmp' = [ip_igmp EXCEPT !.reports_sent = ReportsSentAfter(@, is_joining)]
         /\ UNCHANGED <<pool_available, ip_sent>>
    ELSE /\ pool_available' = pool_available - 1
         /\ ip_igmp' = [ip_igmp EXCEPT !.reports_sent = ReportsSentAfter(@, is_joining)]
         /\ ip_sent' = Append(ip_sent,
                              ReportPacket(ip_igmp.little_endian, ip_igmp.router_version,
                                           group_address, interface_index, is_joining))
         /\ ReturnUnlocked(t, c, "NX_SUCCESS")

\* The function from the allocation of the packet to the release of the
\* mutex.  _nx_packet_allocate with TX_NO_WAIT fails with NX_NO_PACKET when
\* the pool is empty.
ReportBody(t, group_address, interface_index, is_joining) ==
    LET c == CallOf("report", NX_NULL, 0, 0, FALSE, NoCounters)
                 @@ [group_address |-> group_address,
                     interface_index |-> interface_index,
                     is_joining |-> is_joining]
    IN
    IF pool_available = 0
    THEN /\ ReturnUnlocked(t, c, "NX_NO_PACKET")
         /\ UNCHANGED igmpvars
    ELSE /\ pool_available' = pool_available - 1
         /\ ip_igmp' = [ip_igmp EXCEPT !.reports_sent = ReportsSentAfter(@, is_joining)]
         /\ ip_sent' = Append(ip_sent,
                              ReportPacket(ip_igmp.little_endian, ip_igmp.router_version,
                                           group_address, interface_index, is_joining))
         /\ ReturnUnlocked(t, c, "NX_SUCCESS")

ReportOver(t, groups, indexes) ==
    /\ pc[t] = "report"
    /\ UNCHANGED <<tx_thread, udpvars, tcpvars>>
    /\ \E g \in groups, i \in indexes, j \in JoiningValues :
           ReportBody(t, g, i, j)

Report(t) == ReportOver(t, Groups, InterfaceIndexes)

\* The driver has transmitted the oldest packet handed to the IP layer and
\* releases it to the pool.
PacketTransmitted ==
    /\ ip_sent # <<>>
    /\ MutexFree
    /\ ip_sent' = Tail(ip_sent)
    /\ pool_available' = pool_available + 1
    /\ UNCHANGED <<threadvars, tx_thread, udpvars, tcpvars, ip_igmp>>

(***************************************************************************)
(* Initial state: the IP instance and the sockets as created.              *)
(***************************************************************************)
InitThread ==
    [suspend_cleanup |-> "NULL", suspend_control_block |-> NX_NULL,
     suspended_next |-> NX_NULL, suspended_previous |-> NX_NULL,
     suspend_status |-> "NX_SUCCESS", state |-> "TX_READY",
     suspending |-> FALSE, remaining_ticks |-> 0]

InitUdpSocket ==
    [port |-> 0, bound_next |-> NX_NULL, bound_previous |-> NX_NULL,
     bind_in_progress |-> NX_NULL, bind_suspension_list |-> NX_NULL,
     bind_suspended_count |-> 0]

InitTcpSocket(bound) ==
    [bound_next |-> bound, state |-> "NX_TCP_CLOSED",
     connect_ip |-> Zero32, connect_port |-> 0, next_hop_address |-> Zero32,
     connect_interface |-> NX_NULL, tx_sequence |-> Zero32,
     rx_window_default |-> 8192, rx_window_current |-> 8192, rx_window_last_sent |-> 8192,
     fin_received |-> FALSE, timeout |-> 0, timeout_rate |-> 10, timeout_retries |-> 0,
     tx_window_congestion |-> 0, tx_outstanding_bytes |-> 0,
     packets_sent |-> 0, bytes_sent |-> 0, packets_received |-> 0, bytes_received |-> 0,
     retransmit_packets |-> 0, checksum_errors |-> 0,
     transmit_sent_head |-> NX_NULL, transmit_sent_tail |-> NX_NULL, transmit_sent_count |-> 0,
     receive_queue_count |-> 0, receive_queue_head |-> NX_NULL, receive_queue_tail |-> NX_NULL,
     connect_suspended_thread |-> NX_NULL]

InitThreads ==
    /\ mutex_owner = NX_NULL
    /\ pc = [t \in Threads |-> "idle"]
    /\ call = [t \in Threads |-> NoCall]
    /\ ret_status = [t \in Threads |-> "none"]
    /\ lock_gets = [t \in Threads |-> 0]
    /\ calls_made = [all |-> 0, connect |-> 0, report |-> 0]
    /\ tx_thread = [t \in Threads |-> InitThread]

InitUdp ==
    /\ udp = [s \in UdpSockets |-> InitUdpSocket]
    /\ udp_port_table = [b \in 0 .. (NX_UDP_PORT_TABLE_SIZE - 1) |-> NX_NULL]

\* TCP socket 1 is bound to a port (alone on its port's list), socket 2 is
\* not: it is closed or, as a server socket, listening.  The IP instance has
\* a gateway or none.
InitTcp(gateways, unbound_states) ==
    /\ \E state \in unbound_states :
           tcp = [s \in TcpSockets |->
                      IF s = 1
                      THEN InitTcpSocket(s)
                      ELSE [InitTcpSocket(NX_NULL) EXCEPT !.state = state]]
    /\ ip_tcp = [active_connections |-> 0, connections |-> 0]
    /\ ip_gateway \in gateways
    /\ tcp_syns = <<>>

\* The router speaks IGMPv1 or IGMPv2; the build is little or big endian.
InitIgmp(versions, endians) ==
    /\ pool_available = PoolSize
    /\ ip_igmp \in [reports_sent : {0}, router_version : versions, little_endian : endians]
    /\ ip_sent = <<>>

Init ==
    /\ InitThreads
    /\ InitUdp
    /\ InitTcp({GatewayAddress}, {"NX_TCP_CLOSED"})
    /\ InitIgmp({2}, {TRUE})

\* The UDP operations: threads 1 and 2 bind the sockets and thread 3 unbinds
\* them.
NextUdp ==
    \/ \E t \in {1, 2} :
        \/ BindEnter(t)
        \/ Bind(t)
        \/ BindResume(t)
        \/ UdpBindCleanup(t)
    \/ UnbindEnter(3)
    \/ Unbind(3)

\* The TCP operations: thread 2, an application thread, and the IP thread
\* connect the sockets.
NextTcp ==
    \/ \E t \in {2, IpThread} :
        \/ ConnectEnter(t)
        \/ Connect(t)
        \/ ConnectResume(t)
        \/ TcpConnectCleanup(t)
    \/ \E s \in TcpSockets : TcpConnectionEstablished(s)

NextIgmp ==
    \/ \E t \in Threads :
        \/ ReportEnter(t)
        \/ Report(t)
    \/ PacketTransmitted

\* The three operations together: threads 1 and 2 are application threads
\* that bind two UDP sockets to one port (thread 1 also unbinds them), thread
\* 2 and the IP thread connect the bound TCP socket to one server, and the IP
\* thread sends the reports of one group on one interface.
Next ==
    \/ \E t \in {1, 2} :
        \/ BindEnter(t)
        \/ BindOver(t, {1, 2}, {1})
        \/ BindResume(t)
        \/ UdpBindCleanup(t)
    \/ UnbindEnter(1)
    \/ UnbindOver(1, {1, 2})
    \/ \E t \in {2, IpThread} :
        \/ ConnectEnter(t)
        \/ ConnectOver(t, {1}, {IP_ADDRESS(8, 8, 8, 8)})
    \/ ConnectResume(2)
    \/ TcpConnectCleanup(2)
    \/ TcpConnectionEstablished(1)
    \/ ReportEnter(IpThread)
    \/ ReportOver(IpThread, {IP_ADDRESS(224, 0, 0, 42)}, {0})
    \/ PacketTransmitted

Spec == Init /\ [][Next]_vars

\* The three protocols on their own.
SpecUdp == Init /\ [][NextUdp]_vars

\* The binds that can wait: threads 1 and 2 bind sockets 1 and 2 to one
\* port and thread 3 unbinds them.
NextUdpWait ==
    \/ \E t \in {1, 2} :
        \/ BindEnter(t)
        \/ BindOver(t, {1, 2}, {1})
        \/ BindResume(t)
        \/ UdpBindCleanup(t)
    \/ UnbindEnter(3)
    \/ UnbindOver(3, {1, 2})

\* A thread that holds the mutex or has been resumed runs on, and the timer
\* of a suspended binder (its wait option is a finite number of ticks)
\* expires; whether a thread makes another call is left open.
UdpFairness ==
    /\ \A t \in {1, 2} :
           /\ WF_vars(BindOver(t, {1, 2}, {1}))
           /\ WF_vars(BindResume(t))
           /\ WF_vars(UdpBindCleanup(t))
    /\ WF_vars(UnbindOver(3, {1, 2}))

SpecUdpFair == Init /\ [][NextUdpWait]_vars /\ UdpFairness

InitTcpOnly ==
    /\ InitThreads
    /\ InitUdp
    /\ InitTcp({Zero32, GatewayAddress}, {"NX_TCP_CLOSED", "NX_TCP_LISTEN_STATE"})
    /\ InitIgmp({2}, {TRUE})

SpecTcp == InitTcpOnly /\ [][NextTcp]_vars

InitIgmpOnly ==
    /\ InitThreads
    /\ InitUdp
    /\ InitTcp({GatewayAddress}, {"NX_TCP_CLOSED"})
    /\ InitIgmp({1, 2}, {TRUE, FALSE})

SpecIgmp == InitIgmpOnly /\ [][NextIgmp]_vars

(***************************************************************************)
(* The lock discipline.                                                    *)
(***************************************************************************)
LockedLabels == {"bind", "unbind", "connect", "report"}
WaitLabels == {"bind_wait", "connect_wait"}

\* A step of thread t inside report_send, bind or connect that touches the
\* protected state: the body (it reads the socket and the bucket, or
\* allocates from the pool), or a step after the wake that writes a socket,
\* the port table or the pool.
ProtectedAccess(t) ==
    /\ pc'[t] # pc[t]
    /\ \/ pc[t] \in {"bind", "connect", "report"}
       \/ /\ pc[t] \in WaitLabels
          /\ <<udp, udp_port_table, tcp, pool_available>>' #
             <<udp, udp_port_table, tcp, pool_available>>

\* C1: every write of a socket field, every read of a port-table bucket and
\* every allocation from the packet pool made by report_send, bind or connect
\* is made while the calling thread holds the IP mutex, the write of
\* state = CLOSED after a failed wait in connect included.
C1_AccessUnderLock ==
    [][\A t \in Threads : ProtectedAccess(t) => mutex_owner = t]_vars

C3_SuspendedUnlocked ==
    /\ \A t \in Threads : pc[t] \in WaitLabels => mutex_owner # t
    /\ \A t \in Threads :
           (pc[t] = "ret" /\ call[t].suspended) =>
               mutex_owner # t /\ lock_gets[t] = 1

\* A binder is suspended on a port while another thread holds the mutex.
C3_Witness ==
    \E t \in Threads, o \in Threads :
        /\ pc[t] = "bind_wait" /\ tx_thread[t].state = "TX_TCP_IP"
        /\ mutex_owner = o /\ o # t

(***************************************************************************)
(* The UDP port table.                                                     *)
(***************************************************************************)
\* The sockets reached from socket s by one or more bound_next steps.
NextClosure(s) ==
    BucketFrom(udp, udp[s].bound_next, {}, Cardinality(UdpSockets))

\* C4: in every bucket the head is null or lies on a non-empty cycle, and
\* every socket reached from the head hashes to the bucket, lies on a cycle
\* of bound_next that visits only sockets of the bucket, and has
\* bound_previous the inverse of bound_next.
C4_BucketInvariant ==
    \A b \in DOMAIN udp_port_table :
        LET members == OnBucket(udp, udp_port_table, b) IN
        /\ udp_port_table[b] = NX_NULL <=> members = {}
        /\ \A s \in members :
               /\ (udp[s].port + (udp[s].port \div 256)) % NX_UDP_PORT_TABLE_SIZE = b
               /\ udp[s].bound_next \in members
               /\ udp[s].bound_previous \in members
               /\ udp[udp[s].bound_next].bound_previous = s
               /\ udp[udp[s].bound_previous].bound_next = s
               /\ s \in NextClosure(s)
               /\ NextClosure(s) = members

\* Two sockets bound to different ports share one bucket's list.
C4_Witness ==
    \E b \in DOMAIN udp_port_table :
        \E s \in OnBucket(udp, udp_port_table, b) :
            /\ udp[s].bound_next # s
            /\ udp[udp[s].bound_next].port # udp[s].port

(***************************************************************************)
(* The failure paths of connect.                                           *)
(***************************************************************************)
ConnectErrors ==
    {"NX_NOT_BOUND", "NX_NOT_CLOSED", "NX_IP_ADDRESS_ERROR",
     "NX_INVALID_INTERFACE", "NX_NOT_CONNECTED"}

\* The transient connection fields of a socket are all zero.
TransientZero(sk) ==
    /\ sk.connect_ip = Zero32
    /\ sk.connect_port = 0
    /\ sk.next_hop_address = Zero32

\* Thread t returns from connect in this step.
ConnectReturns(t) ==
    /\ pc[t] \in {"connect", "connect_wait"}
    /\ pc'[t] = "ret"

\* The queues of a socket are empty and its per-connection counters zero.
QueuesAndCountersZero(sk) ==
    /\ sk.transmit_sent_head = NX_NULL /\ sk.transmit_sent_tail = NX_NULL
    /\ sk.transmit_sent_count = 0
    /\ sk.receive_queue_head = NX_NULL /\ sk.receive_queue_tail = NX_NULL
    /\ sk.receive_queue_count = 0
    /\ sk.packets_sent = 0 /\ sk.bytes_sent = 0
    /\ sk.packets_received = 0 /\ sk.bytes_received = 0
    /\ sk.retransmit_packets = 0 /\ sk.checksum_errors = 0
    /\ sk.tx_window_congestion = 0 /\ sk.tx_outstanding_bytes = 0

\* C5: in every reachable state a TCP socket in state CLOSED has connect_ip,
\* connect_port and next_hop_address equal to zero, empty transmit-sent and
\* receive queues and zero per-connection counters.
C5_ClosedIsClean ==
    \A s \in TcpSockets :
        tcp[s].state = "NX_TCP_CLOSED" =>
            TransientZero(tcp[s]) /\ QueuesAndCountersZero(tcp[s])

\* Thread t returns from connect in this step with one of the given statuses,
\* and the socket is then not in state CLOSED with its transient fields zero.
ReturnsUnclean(t, statuses) ==
    /\ ConnectReturns(t)
    /\ ret_status'[t] \in statuses
    /\ ~ /\ tcp'[call'[t].socket].state = "NX_TCP_CLOSED"
         /\ TransientZero(tcp'[call'[t].socket])

\* C6: every connect that returns an error status (NX_NOT_BOUND,
\* NX_NOT_CLOSED, NX_IP_ADDRESS_ERROR, NX_INVALID_INTERFACE, or a nonzero
\* suspend status after a wait) leaves the socket in state CLOSED with
\* connect_ip, connect_port and next_hop_address zero.  The formula is the
\* clause for the error reported after a wait, the one that a rollback in
\* connect has to establish.
C6_ErrorLeavesClosed ==
    [][\A t \in Threads :
           ~ (call[t].suspended /\ ReturnsUnclean(t, ConnectErrors))]_vars

\* C7: a connect that returns an error status leaves the two TCP connection
\* counters equal to their values before the call.
C7_ErrorKeepsCounters ==
    [][\A t \in Threads :
           (ConnectReturns(t) /\ ret_status'[t] \in ConnectErrors) =>
               ip_tcp' = call'[t].counters]_vars

(***************************************************************************)
(* The failure paths of bind.                                              *)
(***************************************************************************)
BindErrors == {"NX_ALREADY_BOUND", "NX_NO_FREE_PORTS", "NX_PORT_UNAVAILABLE"}

\* The socket is neither bound nor the subject of a pending bind.
Unbound(sk) == sk.bound_next = NX_NULL /\ sk.bind_in_progress = NX_NULL

\* Thread t returns from bind in this step.
BindReturns(t) ==
    /\ pc[t] \in {"bind", "bind_wait"}
    /\ pc'[t] = "ret"

\* The wait of thread t inside bind is ended with an error in this step.
BindWaitFails(t) ==
    /\ pc[t] = "bind_wait"
    /\ tx_thread[t].state = "TX_TCP_IP"
    /\ tx_thread'[t].state = "TX_READY"
    /\ tx_thread'[t].suspend_status # "NX_SUCCESS"

\* C8 as stated: every bind that returns an error status (NX_ALREADY_BOUND,
\* NX_NO_FREE_PORTS, NX_PORT_UNAVAILABLE, or a nonzero suspend status after a
\* wait) leaves the socket with bound_next and bind_in_progress null.
C8_ErrorLeavesUnbound ==
    [][\A t \in Threads :
           (BindReturns(t) /\ ret_status'[t] \in BindErrors) =>
               Unbound(udp'[call'[t].socket])]_vars

\* C8 amended: a bind that returns NX_NO_FREE_PORTS or NX_PORT_UNAVAILABLE
\* without having suspended leaves the socket with bound_next and
\* bind_in_progress null; a bind whose wait is ended with a nonzero status has
\* both null when the status is set, and its return after the wake writes no
\* socket and no bucket; a bind that returns NX_ALREADY_BOUND leaves both
\* fields as they were, one of them not null.
C8_ErrorLeavesBindUndone ==
    [][\A t \in Threads :
           /\ (pc[t] = "bind" /\ pc'[t] = "ret"
               /\ ret_status'[t] \in {"NX_NO_FREE_PORTS", "NX_PORT_UNAVAILABLE"}) =>
                  Unbound(udp'[call'[t].socket])
           /\ BindWaitFails(t) => Unbound(udp'[call[t].socket])
           /\ (pc[t] = "bind_wait" /\ pc'[t] = "ret") =>
                  /\ udp' = udp
                  /\ udp_port_table' = udp_port_table
                  /\ udp[call[t].socket].bind_in_progress # t
           /\ (pc[t] = "bind" /\ pc'[t] = "ret"
               /\ ret_status'[t] = "NX_ALREADY_BOUND") =>
                  /\ udp'[call'[t].socket] = udp[call'[t].socket]
                  /\ ~ Unbound(udp[call'[t].socket])]_vars

\* A bind has returned NX_PORT_UNAVAILABLE after a wait, its socket unbound
\* and with no bind in progress.
C8_Witness ==
    \E t \in Threads :
        /\ pc[t] = "ret" /\ call[t].op = "bind" /\ call[t].suspended
        /\ ret_status[t] = "NX_PORT_UNAVAILABLE"
        /\ Unbound(udp[call[t].socket])

\* The threads whose bind on socket s is pending: suspended inside bind with
\* the socket as their control block.
PendingBinders(s) ==
    {t \in Threads : /\ pc[t] = "bind_wait"
                     /\ tx_thread[t].state = "TX_TCP_IP"
                     /\ tx_thread[t].suspend_control_block = s}

\* C9: a bind on a socket that is bound or has a bind in progress returns
\* NX_ALREADY_BOUND and changes no socket field, no bucket and no suspension
\* list, so that at most one thread is ever recorded in a socket's
\* bind_in_progress: the one thread whose bind on the socket is pending.
C9_SecondBindRejected ==
    [][/\ \A t \in Threads :
              (pc[t] = "bind" /\ pc'[t] # "bind"
               /\ ~ Unbound(udp[call'[t].socket])) =>
                  /\ pc'[t] = "ret"
                  /\ ret_status'[t] = "NX_ALREADY_BOUND"
                  /\ udp' = udp
                  /\ udp_port_table' = udp_port_table
                  /\ tx_thread' = tx_thread
       /\ \A s \in UdpSockets :
              /\ Cardinality(PendingBinders(s)') <= 1
              /\ \A t \in PendingBinders(s)' : udp'[s].bind_in_progress = t]_vars

\* A bind on a socket whose bind by another thread is pending has returned
\* NX_ALREADY_BOUND.
C9_Witness ==
    \E t \in Threads :
        /\ pc[t] = "ret" /\ call[t].op = "bind"
        /\ ret_status[t] = "NX_ALREADY_BOUND"
        /\ udp[call[t].socket].bound_next = NX_NULL
        /\ udp[call[t].socket].bind_in_progress \in Threads \ {t}
        /\ PendingBinders(call[t].socket) # {}

\* The port the call asked for is held by a socket of the table.
PortHeld(port) ==
    \E b \in DOMAIN udp_port_table :
        \E o \in OnBucket(udp, udp_port_table, b) : udp[o].port = port

\* C10: a bind with wait option 0 on an unbound socket, to a port that a
\* socket of the bucket holds, returns NX_PORT_UNAVAILABLE without suspending
\* the thread, leaves every bucket head and every bound_next and
\* bound_previous link unchanged, and leaves the socket's bound_next null.
C10_CollisionNoWait ==
    [][\A t \in Threads :
           (/\ pc[t] = "bind" /\ pc'[t] # "bind"
            /\ Unbound(udp[call'[t].socket])
            /\ call'[t].port # NX_ANY_PORT /\ PortHeld(call'[t].port)
            /\ call'[t].wait = 0) =>
               /\ pc'[t] = "ret"
               /\ ret_status'[t] = "NX_PORT_UNAVAILABLE"
               /\ tx_thread' = tx_thread
               /\ udp_port_table' = udp_port_table
               /\ \A s \in UdpSockets :
                      /\ udp'[s].bound_next = udp[s].bound_next
                      /\ udp'[s].bound_previous = udp[s].bound_previous
               /\ udp'[call'[t].socket].bound_next = NX_NULL]_vars

\* A bind without wait has returned NX_PORT_UNAVAILABLE for a port that
\* another socket holds, while a second socket shares the holder's bucket.
C10_Witness ==
    \E t \in Threads :
        /\ pc[t] = "ret" /\ call[t].op = "bind" /\ ~ call[t].suspended
        /\ call[t].wait = 0
        /\ ret_status[t] = "NX_PORT_UNAVAILABLE"
        /\ udp[call[t].socket].bound_next = NX_NULL
        /\ \E o \in UdpSockets \ {call[t].socket} :
               /\ udp[o].bound_next \notin {NX_NULL, o}
               /\ udp[o].port = call[t].port

\* C11: a bind that returns an error leaves every field of the calling
\* socket, the recorded port included, equal to its value before the call.
\* The formula is the clause for the binds that return the error without
\* having suspended, whose body is one step from the call to the return.
C11_FailedBindLeavesSocket ==
    [][\A t \in Threads :
           (pc[t] = "bind" /\ pc'[t] = "ret" /\ ret_status'[t] \in BindErrors) =>
               udp'[call'[t].socket] = udp[call'[t].socket]]_vars

(***************************************************************************)
(* Threads woken with a failure.                                           *)
(***************************************************************************)
\* Thread t suspended in bind or connect and has been resumed with a nonzero
\* suspend status: it is ready to run again, or has returned the status.
WokenWithError(t) ==
    \/ /\ pc[t] \in WaitLabels
       /\ tx_thread[t].state = "TX_READY"
       /\ tx_thread[t].suspend_status # "NX_SUCCESS"
    \/ /\ pc[t] = "ret" /\ call[t].suspended
       /\ ret_status[t] # "NX_SUCCESS"

\* C12: a thread that suspended in bind or connect and resumes with a nonzero
\* suspend status is on no socket's bind_suspension_list, in no socket's
\* bind_in_progress or connect_suspended_thread, and every socket's
\* bind_suspended_count is the number of threads still on its list.
C12_WokenThreadUnlinked ==
    \A t \in Threads :
        WokenWithError(t) =>
            /\ \A s \in UdpSockets :
                   /\ t \notin SuspendedOn(udp, tx_thread, s)
                   /\ udp[s].bind_in_progress # t
                   /\ udp[s].bind_suspended_count =
                          Cardinality(SuspendedOn(udp, tx_thread, s))
            /\ \A s \in TcpSockets : tcp[s].connect_suspended_thread # t

\* A binder is ready again with NX_PORT_UNAVAILABLE while a connect has
\* returned NX_NOT_CONNECTED after its wait.
C12_Witness ==
    \E t \in Threads, o \in Threads :
        /\ pc[t] = "bind_wait" /\ WokenWithError(t)
        /\ pc[o] = "ret" /\ call[o].op = "connect" /\ WokenWithError(o)

(***************************************************************************)
(* bind followed by unbind.                                                *)
(***************************************************************************)
\* The ports of the round trip: low ports of every bucket and the ports
\* searched for NX_ANY_PORT.
RoundTripPorts == (1 .. 4) \cup (NX_SEARCH_PORT_START .. NX_MAX_PORT)

\* Socket s is unbound and port p is held by no socket of its bucket.
CanBind(s, p) ==
    LET u == [udp EXCEPT ![s].port = p] IN
    /\ ~ BindAlreadyBound(s)
    /\ PortAvailable(u, BucketSearch(u, udp_port_table, UdpHash(p), p), p)

\* The sockets and the table after bind(s, p) succeeds in the current state
\* and unbind(s) follows at once.
BindThenUnbind(s, p) ==
    LET u == [udp EXCEPT ![s].port = p]
        index == UdpHash(p)
        search_ptr == BucketSearch(u, udp_port_table, index, p)
        bound == BucketSplice(u, udp_port_table, index, s, search_ptr)
    IN  BucketRemove(bound.udp, bound.table, index, s)

\* C13: in every state of the port table and for every unbound socket s, a
\* successful bind(s, p) followed at once by unbind(s) leaves the bucket of p
\* with the head it had and every socket that was on it with the bound_next
\* and bound_previous it had; an empty bucket is null again.
C13_BindUnbindRestores ==
    \A s \in UdpSockets, p \in RoundTripPorts :
        CanBind(s, p) =>
            LET after == BindThenUnbind(s, p) IN
            /\ after.table = udp_port_table
            /\ after.udp[s].bound_next = NX_NULL
            /\ \A o \in OnBucket(udp, udp_port_table, UdpHash(p)) :
                   /\ after.udp[o].bound_next = udp[o].bound_next
                   /\ after.udp[o].bound_previous = udp[o].bound_previous

\* A socket has been bound to a port and unbound again by a call of unbind;
\* the bucket of the port holds another socket and the port is free again.
C13_Witness ==
    \E t \in Threads :
           /\ pc[t] = "ret" /\ call[t].op = "unbind" /\ ret_status[t] = "NX_SUCCESS"
           /\ CanBind(call[t].socket, udp[call[t].socket].port)
           /\ udp_port_table[UdpHash(udp[call[t].socket].port)] # NX_NULL

(***************************************************************************)
(* A connect after a failed connect.                                       *)
(***************************************************************************)
\* Thread a has returned an error from connect.
FailedConnect(a) ==
    /\ pc[a] = "ret" /\ call[a].op = "connect"
    /\ ret_status[a] \in ConnectErrors

\* The run's first connect, by thread a, has failed, and in this step thread
\* b makes the second one, on the same socket with the same arguments.
SecondAttempt(a, b) ==
    /\ a # b
    /\ FailedConnect(a)
    /\ calls_made.connect = 2
    /\ pc[b] = "connect" /\ pc'[b] # "connect"
    /\ call'[b].socket = call[a].socket
    /\ call'[b].server_ip = call[a].server_ip
    /\ call'[b].port = call[a].port
    /\ call'[b].wait = call[a].wait

\* The sequence numbers a connect leaves in a socket whose tx_sequence was
\* zero, as it is in a socket that has never connected.
FreshSequences ==
    {Add32(InitialSequence(Zero32, r1, r2), Ulong(1)) : r1 \in RandDraws, r2 \in RandDraws}

\* C14: when a connect fails and a second connect is made on the same socket
\* with the same arguments, the socket (state, connect_ip, connect_port,
\* next_hop_address, the derivation of tx_sequence) and the IP counters are
\* as a single connect on the original socket would leave them, whatever the
\* failure of the first attempt.
C14_RetryLikeSingleAttempt ==
    [][\A a \in Threads, b \in Threads :
           SecondAttempt(a, b) =>
               LET sk == tcp'[call'[b].socket] IN
               IF pc'[b] = "connect_wait"
                  \/ ret_status'[b] \in {"NX_SUCCESS", "NX_IN_PROGRESS"}
               THEN /\ ip_tcp' = TcpCountersUp(call[a].counters)
                    /\ sk.tx_sequence \in FreshSequences
                    /\ sk.connect_ip = call'[b].server_ip
                    /\ sk.connect_port = call'[b].port
               ELSE /\ ip_tcp' = call[a].counters
                    /\ sk.state = "NX_TCP_CLOSED"
                    /\ TransientZero(sk)
                    /\ sk.tx_sequence = Zero32]_vars

(***************************************************************************)
(* The IGMP report.                                                        *)
(***************************************************************************)
\* The sum of the four 16-bit halves of two header words.
HalvesSum(word_0, word_1) == word_0[1] + word_0[2] + word_1[1] + word_1[2]

\* The 16-bit one's-complement sum: the carries are added back in until none
\* is left.
RECURSIVE EndAroundCarry(_)
EndAroundCarry(x) ==
    IF x > 65535 THEN EndAroundCarry((x \div 65536) + (x % 65536)) ELSE x

\* Thread t has returned NX_SUCCESS from report_send.
ReportSent(t) ==
    /\ pc[t] = "ret" /\ call[t].op = "report"
    /\ ret_status[t] = "NX_SUCCESS"

\* The first header word of the report of thread t before the checksum.
SentWord0(t) == IgmpHeaderWord0(ip_igmp.router_version, call[t].is_joining)

\* C15: in every report emitted, the 16-bit one's-complement sum of the four
\* halves of the two header words, checksum included, is 0xFFFF, and the sum
\* the code holds after its two folds fits in 16 bits.
C15_ChecksumComplete ==
    /\ \A i \in DOMAIN ip_sent :
           EndAroundCarry(HalvesSum(ip_sent[i].header_word_0,
                                    ip_sent[i].header_word_1)) = 65535
    /\ \A t \in Threads :
           ReportSent(t) =>
               IgmpChecksum(SentWord0(t), call[t].group_address) <= 65535

\* A report has been sent whose header sum still has a carry after the first
\* fold, and the packet is with the IP layer.
C15_Witness ==
    /\ ip_sent # <<>>
    /\ \E t \in Threads :
           /\ ReportSent(t)
           /\ LET sum == HalvesSum(SentWord0(t), call[t].group_address)
              IN  (sum \div 65536) + (sum % 65536) > 65535

\* Thread t returns NX_SUCCESS from report_send in this step.
ReportSucceeds(t) ==
    /\ pc[t] = "report" /\ pc'[t] = "ret"
    /\ ret_status'[t] = "NX_SUCCESS"

\* The packet handed to the IP layer in this step.
HandedPacket == ip_sent'[Len(ip_sent')]

\* The four bytes of an address in network order.
NetworkBytes(x) == <<x[1] \div 256, x[1] % 256, x[2] \div 256, x[2] % 256>>

\* C16: the header of a report has type byte 0x12 when the router is version
\* 1, whether joining or leaving; with a version 2 router the type byte is
\* 0x16 for a join and 0x17 for a leave; the max-response-time byte is 0 and
\* the second word is the group address.
C16_HeaderTypes ==
    [][\A t \in Threads :
           ReportSucceeds(t) =>
               LET bytes_0 == MemoryBytes(ip_igmp.little_endian, HandedPacket.header_word_0)
                   bytes_1 == MemoryBytes(ip_igmp.little_endian, HandedPacket.header_word_1)
                   v1 == ip_igmp.router_version = NX_IGMP_HOST_VERSION_1
               IN  /\ v1 => bytes_0[1] = 18
                   /\ (~ v1 /\ call'[t].is_joining = NX_TRUE) => bytes_0[1] = 22
                   /\ (~ v1 /\ call'[t].is_joining = 0) => bytes_0[1] = 23
                   /\ bytes_0[2] = 0
                   /\ bytes_1 = NetworkBytes(call'[t].group_address)]_vars

\* A leave has been reported to a version 1 router.
C16_Witness ==
    \E t \in Threads :
        /\ ReportSent(t)
        /\ ip_igmp.router_version = NX_IGMP_HOST_VERSION_1
        /\ call[t].is_joining = 0
        /\ ip_sent # <<>>

\* Thread t runs report_send from the allocation to the return in this step.
ReportReturns(t) == pc[t] = "report" /\ pc'[t] = "ret"

ConnectRuns(t) == pc[t] = "connect" /\ pc'[t] # "connect"

\* Thread t has returned the given status with nothing of TCP changed.
ConnectRefused(t, status) ==
    /\ pc'[t] = "ret"
    /\ ret_status'[t] = status
    /\ tcp' = tcp
    /\ ip_tcp' = ip_tcp
    /\ tcp_syns' = tcp_syns

\* C19: connect on a socket whose bound_next is null returns NX_NOT_BOUND
\* whatever the state of the socket, and connect on a bound socket that is
\* not CLOSED returns NX_NOT_CLOSED; in both cases no field of any socket
\* (the interface and the next hop a route lookup writes among them) and
\* neither connection counter changes, and no SYN is sent.
C19_UnboundOrOpenRefused ==
    [][\A t \in Threads :
           ConnectRuns(t) =>
               LET sk == tcp[call'[t].socket] IN
               /\ sk.bound_next = NX_NULL => ConnectRefused(t, "NX_NOT_BOUND")
               /\ (sk.bound_next # NX_NULL /\ sk.state # "NX_TCP_CLOSED") =>
                      ConnectRefused(t, "NX_NOT_CLOSED")]_vars

\* A connect on the listening, unbound socket has been refused while the
\* bound socket has a connection under way.
C19_Witness ==
    \E t \in Threads :
        /\ pc[t] = "ret" /\ call[t].op = "connect"
        /\ ret_status[t] = "NX_NOT_BOUND"
        /\ tcp[call[t].socket].state = "NX_TCP_LISTEN_STATE"
        /\ \E s \in TcpSockets : tcp[s].state = "NX_TCP_SYN_SENT"

\* The route to the server of the call thread t makes in this step.
RouteOfCall(t) == IpRouteFind(ip_gateway, call'[t].server_ip)

\* Thread t runs connect on a bound, closed socket and the route to the
\* server leaves by an interface whose MTU is below the 40 bytes of an IP
\* and a TCP header.
ConnectOverSmallMtu(t) ==
    /\ ConnectRuns(t)
    /\ tcp[call'[t].socket].bound_next # NX_NULL
    /\ tcp[call'[t].socket].state = "NX_TCP_CLOSED"
    /\ RouteOfCall(t).status = "NX_SUCCESS"
    /\ Interfaces[RouteOfCall(t).interface].mtu_size < 40

SynSentIncomplete(t) ==
    /\ ConnectRuns(t)
    /\ Len(tcp_syns') = Len(tcp_syns) + 1
    /\ tcp'[call'[t].socket].state # "NX_TCP_ESTABLISHED"

\* C21: connect never suspends the IP thread: when the caller is the IP
\* thread, or the wait option is 0, and the socket is not ESTABLISHED once
\* the SYN is sent, connect returns NX_IN_PROGRESS with the socket in SYN
\* SENT, the caller is not put in connect_suspended_thread and stays ready.
C21_IpThreadNotSuspended ==
    [][/\ \A t \in Threads :
              (SynSentIncomplete(t) /\ (t = IpThread \/ call'[t].wait = 0)) =>
                  /\ pc'[t] = "ret"
                  /\ ret_status'[t] = "NX_IN_PROGRESS"
                  /\ tcp'[call'[t].socket].state = "NX_TCP_SYN_SENT"
                  /\ tcp'[call'[t].socket].connect_suspended_thread # t
                  /\ tx_thread'[t] = tx_thread[t]
                  /\ mutex_owner' = NX_NULL
       /\ pc'[IpThread] # "connect_wait"
       /\ \A s \in TcpSockets : tcp'[s].connect_suspended_thread # IpThread]_vars

\* The IP thread has called connect with a wait option and has the answer
\* NX_IN_PROGRESS, the socket being in SYN SENT.
C21_Witness ==
    /\ pc[IpThread] = "ret" /\ call[IpThread].op = "connect"
    /\ call[IpThread].wait > 0
    /\ ret_status[IpThread] = "NX_IN_PROGRESS"
    /\ tcp[call[IpThread].socket].state = "NX_TCP_SYN_SENT"

\* Thread o unbinds in this step a bound socket on which a thread waits.
UnbindWithWaiter(o) ==
    /\ pc[o] = "unbind" /\ pc'[o] = "ret"
    /\ udp[call'[o].socket].bound_next # NX_NULL
    /\ udp[call'[o].socket].bind_suspension_list # NX_NULL

\* Thread t, suspended in bind, has been resumed with NX_SUCCESS.
WokenWithPort(t) ==
    /\ pc[t] = "bind_wait"
    /\ tx_thread[t].state = "TX_READY"
    /\ tx_thread[t].suspend_status = "NX_SUCCESS"

\* C22: when socket A holds a port and thread T is suspended in a bind of
\* socket B to the port, the unbind of A wakes T with NX_SUCCESS, B is then
\* bound and the bucket of the port holds B and not A, and T's bind goes on
\* to return NX_SUCCESS; and, the wakers being fair, every thread suspended
\* in bind eventually returns.
C22_WaiterGetsPort ==
    /\ [][\A o \in Threads :
              UnbindWithWaiter(o) =>
                  LET a == call'[o].socket
                      w == udp[a].bind_suspension_list
                      b == tx_thread[w].suspend_control_block
                      index == (udp[a].port + (udp[a].port \div 256)) % NX_UDP_PORT_TABLE_SIZE
                  IN  /\ pc[w] = "bind_wait"
                      /\ tx_thread'[w].state = "TX_READY"
                      /\ tx_thread'[w].suspend_status = "NX_SUCCESS"
                      /\ udp'[b].bound_next # NX_NULL
                      /\ udp'[b].port = udp[a].port
                      /\ b \in OnBucket(udp', udp_port_table', index)
                      /\ a \notin OnBucket(udp', udp_port_table', index)
                      /\ udp'[a].bound_next = NX_NULL]_vars
    /\ \A t \in Threads :
           WokenWithPort(t) ~> (pc[t] = "ret" /\ ret_status[t] = "NX_SUCCESS")
    /\ \A t \in Threads : (pc[t] = "bind_wait") ~> (pc[t] = "ret")

\* A bind that waited has returned NX_SUCCESS with its socket bound to the
\* port of a socket that has been unbound.
C22_Witness ==
    \E t, o \in Threads :
        /\ pc[t] = "ret" /\ call[t].op = "bind" /\ call[t].suspended
        /\ ret_status[t] = "NX_SUCCESS"
        /\ udp[call[t].socket].bound_next # NX_NULL
        /\ pc[o] = "ret" /\ call[o].op = "unbind" /\ ret_status[o] = "NX_SUCCESS"
        /\ udp[call[o].socket].bound_next = NX_NULL
        /\ udp[call[o].socket].port = udp[call[t].socket].port

\* Thread t runs connect on a bound, closed socket and the route to the
\* server leaves by an interface that carries an IP and a TCP header.
ConnectPassesChecks(t) ==
    /\ ConnectRuns(t)
    /\ tcp[call'[t].socket].bound_next # NX_NULL
    /\ tcp[call'[t].socket].state = "NX_TCP_CLOSED"
    /\ RouteOfCall(t).status = "NX_SUCCESS"
    /\ Interfaces[RouteOfCall(t).interface].mtu_size >= 40

\* x + n modulo 2^32, for a ULONG x and a number n below 2^16.
PlusSmall(x, n) == <<(x[1] + ((x[2] + n) \div 65536)) % 65536, (x[2] + n) % 65536>>

\* x + 0x10000 modulo 2^32.
PlusStride(x) == <<(x[1] + 1) % 65536, x[2]>>

\* C23: a connect that passes the bound, CLOSED, route and MTU checks sends
\* one SYN for its socket; the sequence number of the SYN is two 16-bit
\* random draws side by side when the socket's tx_sequence was 0, and
\* otherwise the old tx_sequence plus 0x10000 plus a 16-bit random draw,
\* modulo 2^32; tx_sequence is then that sequence number plus 1 modulo 2^32.
C23_SynSequence ==
    [][\A t \in Threads :
           ConnectPassesChecks(t) =>
               LET s == call'[t].socket
                   old == tcp[s].tx_sequence
                   syn == tcp_syns'[Len(tcp_syns')]
               IN  /\ Len(tcp_syns') = Len(tcp_syns) + 1
                   /\ syn[1] = s
                   /\ old = <<0, 0>> =>
                          \E r1 \in RandDraws, r2 \in RandDraws : syn[2] = <<r1, r2>>
                   /\ old # <<0, 0>> =>
                          \E r \in RandDraws : syn[2] = PlusSmall(PlusStride(old), r)
                   /\ tcp'[s].tx_sequence = PlusSmall(syn[2], 1)]_vars

\* The socket has sent two SYNs and the sequence number of the second has
\* wrapped past 2^32 below that of the first.
C23_Witness ==
    /\ Len(tcp_syns) = 2
    /\ tcp_syns[1][1] = tcp_syns[2][1]
    /\ tcp_syns[1][2][1] = 65535
    /\ tcp_syns[2][2][1] = 0

\* The state of a UDP socket in the bind state machine.
BindState(sk) ==
    IF sk.bound_next # NX_NULL THEN "Bound"
    ELSE IF sk.bind_in_progress # NX_NULL THEN "WaitingForPortFree"
    ELSE "Unbound"

\* Thread t runs bind on socket s from the test of the socket onwards in
\* this step.
BindRunsOn(t, s) == pc[t] = "bind" /\ pc'[t] # "bind" /\ call'[t].socket = s

\* Thread o runs unbind on socket s in this step.
UnbindRunsOn(o, s) == pc[o] = "unbind" /\ pc'[o] = "ret" /\ call'[o].socket = s

\* Socket s changes state in this step by one of the four moves of bind.
BindMove(s) ==
    LET from == BindState(udp[s])
        to == BindState(udp'[s])
    IN  \/ /\ from = "Unbound" /\ to = "Bound"
           /\ \E t \in Threads :
                  /\ BindRunsOn(t, s)
                  /\ ~ PortHeld(udp'[s].port)
        \/ /\ from = "Unbound" /\ to = "WaitingForPortFree"
           /\ \E t \in Threads :
                  /\ BindRunsOn(t, s)
                  /\ call'[t].wait > 0
                  /\ PortHeld(udp'[s].port)
        \/ /\ from = "WaitingForPortFree" /\ to = "Bound"
           /\ \E o \in Threads, a \in UdpSockets :
                  /\ UnbindRunsOn(o, a)
                  /\ udp[a].bound_next # NX_NULL
                  /\ udp[a].port = udp[s].port
                  /\ udp[s].bind_in_progress \in SuspendedOn(udp, tx_thread, a)
        \/ /\ from = "WaitingForPortFree" /\ to = "Unbound"
           /\ BindWaitFails(udp[s].bind_in_progress)

\* No bind changes the state of a socket that is bound or waiting.
BindKeepsSettled ==
    \A t \in Threads, s \in UdpSockets :
        (pc[t] = "bind" /\ pc'[t] # "bind" /\ BindState(udp[s]) # "Unbound") =>
            BindState(udp'[s]) = BindState(udp[s])

\* C24 as stated: a UDP socket changes state only from Unbound to Bound by a
\* bind that finds no socket with the port, from Unbound to
\* WaitingForPortFree by a bind with a wait that finds one, from
\* WaitingForPortFree to Bound when the owner of the port unbinds, and from
\* WaitingForPortFree to Unbound on a timeout or an abort; and no bind
\* changes the state of a socket that is Bound or WaitingForPortFree.
C24_OnlyBindMoves ==
    [][/\ \A s \in UdpSockets :
              BindState(udp'[s]) # BindState(udp[s]) => BindMove(s)
       /\ BindKeepsSettled]_vars

\* C24 amended: the moves are the four of bind and the move from Bound to
\* Unbound by the unbind of the socket; no bind changes the state of a
\* socket that is Bound or WaitingForPortFree.
C24_BindAndUnbindMoves ==
    [][/\ \A s \in UdpSockets :
              BindState(udp'[s]) # BindState(udp[s]) =>
                  \/ BindMove(s)
                  \/ /\ BindState(udp[s]) = "Bound" /\ BindState(udp'[s]) = "Unbound"
                     /\ \E o \in Threads : UnbindRunsOn(o, s)
       /\ BindKeepsSettled]_vars

\* A bind that waited has come back with an error, its socket unbound again,
\* and the socket that held the port has been unbound.
C24_Witness ==
    \E t, o \in Threads :
        /\ pc[t] = "ret" /\ call[t].op = "bind" /\ call[t].suspended
        /\ ret_status[t] = "NX_PORT_UNAVAILABLE"
        /\ BindState(udp[call[t].socket]) = "Unbound"
        /\ pc[o] = "ret" /\ call[o].op = "unbind" /\ ret_status[o] = "NX_SUCCESS"
        /\ BindState(udp[call[o].socket]) = "Unbound"
        /\ udp[call[o].socket].port = udp[call[t].socket].port

\* The bound sockets that hold the port.
HoldersOf(port) ==
    {a \in UdpSockets : udp[a].bound_next # NX_NULL /\ udp[a].port = port}

\* Thread t, suspended in the bind of its socket, is registered in full: the
\* cleanup routine and the socket are stored on the thread, the socket
\* records the thread, the timeout is stored, and the thread is on the
\* suspension list of one socket, which counts it.
FullyRegistered(t) ==
    /\ tx_thread[t].suspend_cleanup = "_nx_udp_bind_cleanup"
    /\ tx_thread[t].suspend_control_block = call[t].socket
    /\ tx_thread[t].remaining_ticks = call[t].wait
    /\ tx_thread[t].suspending
    /\ udp[call[t].socket].bind_in_progress = t
    /\ \E a \in UdpSockets :
           /\ t \in SuspendedOn(udp, tx_thread, a)
           /\ udp[a].bind_suspended_count = Cardinality(SuspendedOn(udp, tx_thread, a))

\* C25: a bind that finds its port taken and waits has, when it releases the
\* mutex, put its thread at the tail of the suspension list of the socket
\* that holds the port, incremented that socket's bind_suspended_count,
\* stored the cleanup routine, the binding socket and the timeout on the
\* thread and the thread in the socket's bind_in_progress; a thread still
\* suspended in bind is never found registered in part only.
C25_RegisteredBeforeRelease ==
    [][/\ \A t \in Threads :
              (pc[t] = "bind" /\ pc'[t] = "bind_wait") =>
                  \E a \in HoldersOf(udp'[call'[t].socket].port) :
                      LET head == udp'[a].bind_suspension_list IN
                      /\ mutex_owner = t /\ mutex_owner' = NX_NULL
                      /\ call'[t].wait > 0
                      /\ head # NX_NULL
                      /\ tx_thread'[head].suspended_previous = t
                      /\ tx_thread'[t].suspended_next = head
                      /\ udp[a].bind_suspension_list # NX_NULL =>
                             head = udp[a].bind_suspension_list
                      /\ udp'[a].bind_suspended_count = udp[a].bind_suspended_count + 1
       /\ \A t \in Threads :
              (pc'[t] = "bind_wait" /\ tx_thread'[t].state = "TX_TCP_IP") =>
                  FullyRegistered(t)']_vars

\* Two threads are suspended on one socket and the mutex is free.
C25_Witness ==
    /\ MutexFree
    /\ \E a \in UdpSockets :
           /\ udp[a].bind_suspended_count = 2
           /\ \A t \in SuspendedOn(udp, tx_thread, a) :
                  pc[t] = "bind_wait" /\ FullyRegistered(t)

\* The threads reached from thread t by suspended_next.
SuspendedClosure(t) ==
    ThreadsFrom(tx_thread, tx_thread[t].suspended_next, {}, Cardinality(Threads))

\* C26: for every UDP socket, bind_suspension_list is non-null exactly when
\* bind_suspended_count is above 0, bind_suspended_count is the number of
\* threads on the list, and suspended_next and suspended_previous of the
\* threads on the list form one closed cycle.
C26_SuspensionListCounted ==
    \A a \in UdpSockets :
        LET members == SuspendedOn(udp, tx_thread, a) IN
        /\ udp[a].bind_suspension_list # NX_NULL <=> udp[a].bind_suspended_count > 0
        /\ udp[a].bind_suspended_count = Cardinality(members)
        /\ \A t \in members :
               /\ tx_thread[t].suspended_next \in members
               /\ tx_thread[t].suspended_previous \in members
               /\ tx_thread[tx_thread[t].suspended_next].suspended_previous = t
               /\ tx_thread[tx_thread[t].suspended_previous].suspended_next = t
               /\ SuspendedClosure(t) = members

\* Two threads are on the suspension list of one socket, each the next of
\* the other.
C26_Witness ==
    \E a \in UdpSockets :
        LET head == udp[a].bind_suspension_list IN
        /\ head # NX_NULL
        /\ tx_thread[head].suspended_next # head
        /\ tx_thread[tx_thread[head].suspended_next].suspended_next = head
        /\ udp[a].bind_suspended_count = 2

\* What a scanner that follows bound_next and bound_previous from the heads
\* of the table finds: every list is a closed cycle.
ScannerSeesCycles(u, table) ==
    \A b \in DOMAIN table :
        LET members == BucketFrom(u, table[b], {}, Cardinality(UdpSockets)) IN
        \A s \in members :
            /\ u[s].bound_next \in members
            /\ u[u[s].bound_next].bound_previous = s
            /\ u[u[s].bound_previous].bound_next = s
            /\ BucketFrom(u, u[s].bound_next, {}, Cardinality(UdpSockets)) = members

\* Thread t puts its socket on a bucket in this step.
BindSplices(t) ==
    /\ pc[t] = "bind" /\ pc'[t] = "ret"
    /\ ret_status'[t] = "NX_SUCCESS"

\* C27: the pointer writes that put a socket on a bucket's list are made in
\* one interrupt-disabled region inside the hold of the mutex, so that a
\* scanner of the receive path, which runs without the mutex, finds every
\* bucket a closed cycle before and after them; a bind into a bucket that is
\* not empty puts the socket just before the head and leaves the head of the
\* bucket as it was, a bind into an empty bucket makes the socket its own
\* neighbour and the head.
C27_SpliceInOneRegion ==
    [][/\ ScannerSeesCycles(udp, udp_port_table) => ScannerSeesCycles(udp', udp_port_table')
       /\ \A t \in Threads :
              BindSplices(t) =>
                  LET s == call'[t].socket
                      port == udp'[s].port
                      index == (port + (port \div 256)) % NX_UDP_PORT_TABLE_SIZE
                      head == udp_port_table[index]
                  IN  /\ mutex_owner = t
                      /\ \A b \in DOMAIN udp_port_table :
                             b # index => udp_port_table'[b] = udp_port_table[b]
                      /\ head # NX_NULL =>
                             /\ udp_port_table'[index] = head
                             /\ udp'[s].bound_next = head
                             /\ udp'[head].bound_previous = s
                             /\ udp'[s].bound_previous = udp[head].bound_previous
                             /\ udp'[udp[head].bound_previous].bound_next = s
                      /\ head = NX_NULL =>
                             /\ udp_port_table'[index] = s
                             /\ udp'[s].bound_next = s
                             /\ udp'[s].bound_previous = s]_vars

\* A bind has put its socket just before the head of a bucket that held a
\* socket already.
C27_Witness ==
    \E t \in Threads :
        /\ pc[t] = "ret" /\ call[t].op = "bind" /\ ret_status[t] = "NX_SUCCESS"
        /\ ~ call[t].suspended
        /\ LET s == call[t].socket
               head == udp_port_table[UdpHash(udp[s].port)]
           IN  /\ head # NX_NULL /\ head # s
               /\ udp[s].bound_next = head
               /\ udp[head].bound_previous = s
        /\ ScannerSeesCycles(udp, udp_port_table)

\* The sockets on the lists of the port table.
OnPortTable(u, table) ==
    UNION {BucketFrom(u, table[b], {}, Cardinality(UdpSockets)) : b \in DOMAIN table}

\* C28: whatever the interleaving of the binds of different threads on
\* different sockets, no two sockets on the port table have the same port:
\* a bind to a port that a socket on the table holds does not put its
\* socket on the bucket.
C28_PortsDistinct ==
    [][/\ \A a, b \in OnPortTable(udp', udp_port_table') :
              a # b => udp'[a].port # udp'[b].port
       /\ \A t \in Threads :
              (/\ pc[t] = "bind" /\ pc'[t] # "bind"
               /\ \E a \in OnPortTable(udp, udp_port_table) :
                      a # call'[t].socket /\ udp[a].port = udp'[call'[t].socket].port) =>
                  /\ udp'[call'[t].socket].bound_next = udp[call'[t].socket].bound_next
                  /\ udp_port_table' = udp_port_table
                  /\ pc'[t] = "ret" => ret_status'[t] # "NX_SUCCESS"]_vars

\* A bind has been refused a port that a socket other than the head of the
\* bucket holds.
C28_Witness ==
    \E t \in Threads :
        /\ pc[t] = "ret" /\ call[t].op = "bind"
        /\ ret_status[t] = "NX_PORT_UNAVAILABLE"
        /\ udp[call[t].socket].bound_next = NX_NULL
        /\ \E a \in OnPortTable(udp, udp_port_table) :
               /\ udp[a].port = udp[call[t].socket].port
               /\ udp_port_table[UdpHash(udp[a].port)] # a

\* C29: with a version 2 router and whatever the value of is_joining, zero,
\* one or another, report_send treats the call as a join throughout or as a
\* leave throughout: the type of the header is the join type exactly when
\* the destination and the next hop are the group address, and exactly when
\* reports_sent is incremented; it is the leave type exactly when the
\* destination is the all-routers address.
C29_JoinOrLeaveThroughout ==
    [][\A t \in Threads :
           (ReportSucceeds(t) /\ ip_igmp.router_version # NX_IGMP_HOST_VERSION_1) =>
               LET type == MemoryBytes(ip_igmp.little_endian, HandedPacket.header_word_0)[1]
                   to_group == /\ HandedPacket.destination = call'[t].group_address
                               /\ HandedPacket.next_hop_address = call'[t].group_address
                   to_routers == HandedPacket.destination = IP_ADDRESS(224, 0, 0, 2)
                   counted == ip_igmp'.reports_sent = ip_igmp.reports_sent + 1
               IN  /\ type = 22 <=> to_group
                   /\ type = 22 <=> counted
                   /\ type = 23 <=> to_routers]_vars

====
